---- MODULE Spec2Model ----
(***************************************************************************)
(* Model of the specification-driven request/response pipeline of          *)
(* scalrctl (src/scalrctl/commands/__init__.py): the OpenAPI v2 and v3     *)
(* resolvers, filter_json_object with its class-level discriminator cache, *)
(* Action.pre / Action.run, the rendering of a response                    *)
(* (_format_response, _format_errmsg), the example generator               *)
(* (src/scalrctl/examples.py), and the progress spinner that runs beside   *)
(* the specification update (src/scalrctl/commands/internal/update.py)     *)
(* and beside PolledAction._wait_for_status.                               *)
(*                                                                         *)
(* State                                                                   *)
(*   spec            the implementation class get_spec chose: "v2" or "v3" *)
(*   raw_spec        self.raw_spec, the parsed document the class holds    *)
(*   _discriminators the class-level discriminator cache; origin records   *)
(*                   for which schema an entry was stored                  *)
(*   call            the last operation, its arguments and what it gave    *)
(*   requests        what was handed to request.request, in order          *)
(*   event, thread   the threading.Event and the Thread of the _spinner in  *)
(*                   use (update.py); stdout is the last write to           *)
(*                   sys.stdout and the thread that made it                 *)
(*                                                                         *)
(* Encoding of Python values                                               *)
(*   dict            a function with string keys ("k" :> v @@ ...)         *)
(*   dict.items()    where the code iterates a dict (schema properties),   *)
(*                   the dict is kept as the sequence of its <<key, value>>*)
(*                   pairs in document order                               *)
(*   JSON payload    a dict whose values are tagged: [str |-> s] for a     *)
(*                   scalar, [obj |-> d] for a nested dict                 *)
(*   reference       the string "#/a/b" is kept as its "/"-split segments  *)
(*                   <<"#", "a", "b">>, so that split('/')[-1] is the last *)
(*                   segment and '{}/{}'.format(ref, key) appends a segment*)
(*   None            the empty tuple                                       *)
(*   exception       operators return a record whose exc field names the   *)
(*                   exception class ("" when none was raised)             *)
(*                                                                         *)
(* Specifications                                                          *)
(*   Spec               the resolvers, the filter and Action.run on the    *)
(*                      loaded v2 and v3 documents                         *)
(*   SpecOutput         Action._format_response                            *)
(*   SpecTypes          list_concrete_types on acyclic type graphs         *)
(*   SpecExamples       _generate_params on acyclic schemas                *)
(*   SpecSpinner        the spinner thread beside update() and beside      *)
(*                      _wait_for_status, under weak fairness              *)
(*   SpecCycles         the filter on documents whose x-concreteTypes      *)
(*                      references form a cycle                            *)
(*   SpecCyclicExamples _generate_params on schemas whose properties name  *)
(*                      each other                                         *)
(***************************************************************************)
EXTENDS Integers, Sequences, FiniteSets, TLC

VARIABLES spec, raw_spec, _discriminators, origin, call, requests, event, thread, stdout

vars == <<spec, raw_spec, _discriminators, origin, call, requests, event, thread, stdout>>

None == <<>>

Has(d, k) == k \in DOMAIN d

Get(d, k) == IF k \in DOMAIN d THEN d[k] ELSE None

Last(s) == s[Len(s)]

Keys(items) == {items[i][1] : i \in 1..Len(items)}

InList(x, list) == \E i \in 1..Len(list) : list[i] = x

\* The value of a one-element set: {f(v) : v \in {e}} binds the value of e
\* to v once, as an assignment to a local does.
TheOne(S) == CHOOSE x \in S : TRUE

(***************************************************************************)
(* SUCCESS_CODES                                                           *)
(***************************************************************************)
SUCCESS_CODES == [get |-> "200", post |-> "201", delete |-> "204", patch |-> "200"]

Methods == {"get", "post", "patch", "delete"}

(***************************************************************************)
(* The loaded OpenAPI documents.  Both describe the same API: plain        *)
(* objects (Thing, Owner), a discriminated family Target -> {Disk,         *)
(* Cloud -> {Aws}}, a second discriminated schema Volume -> {Disk}, and    *)
(* response envelopes.                                                     *)
(***************************************************************************)
RefV2(name) == <<"#", "definitions", name>>

RefV3(name) == <<"#", "components", "schemas", name>>

Str == [type |-> "string"]

RO == [type |-> "string", readOnly |-> TRUE]

Integer == [type |-> "integer"]

Flag == [type |-> "boolean"]

Link(ref) == "$ref" :> ref

Concrete(refs) == [i \in 1..Len(refs) |-> Link(refs[i])]

definitions_v2 ==
  [ Owner  |-> ( "properties" :> << <<"id", RO>>, <<"name", Str>>, <<"scope", Str>> >>
              @@ "x-createOnly" :> <<"scope">> ),
    Env    |-> [properties |-> << <<"id", Integer>> >>],
    Tag    |-> [properties |-> << <<"id", Flag>> >>],
    Thing  |-> ( "properties" :> << <<"id", RO>>, <<"name", Str>>, <<"scope", Str>>,
                                    <<"owner", Link(RefV2("Owner"))>>,
                                    <<"env", Link(RefV2("Env"))>>,
                                    <<"tag", Link(RefV2("Tag"))>> >>
              @@ "x-createOnly" :> <<"scope">> ),
    Target |-> ( "discriminator" :> "type"
              @@ "properties" :> << <<"type", Str>> >>
              @@ "x-concreteTypes" :> Concrete(<<RefV2("Disk"), RefV2("Cloud")>>) ),
    Cloud  |-> ( "properties" :> << <<"type", Str>> >>
              @@ "x-concreteTypes" :> Concrete(<<RefV2("Aws")>>) ),
    Disk   |-> ( "properties" :> << <<"type", Str>>, <<"id", RO>>, <<"scope", Str>>,
                                    <<"owner", Link(RefV2("Owner"))>> >>
              @@ "x-createOnly" :> <<"scope">> ),
    Aws    |-> ( "properties" :> << <<"type", Str>>, <<"name", Str>>,
                                    <<"owner", Link(RefV2("Target"))>> >> ),
    Volume |-> ( "discriminator" :> "type"
              @@ "properties" :> << <<"type", Str>> >>
              @@ "x-concreteTypes" :> Concrete(<<RefV2("Disk")>>) ),
    ThingResponse     |-> [properties |-> << <<"data", Link(RefV2("Thing"))>> >>],
    ThingListResponse |-> [properties |->
                             << <<"data", [type |-> "array", items |-> Link(RefV2("Thing"))]>> >>],
    TargetResponse    |-> [properties |-> << <<"data", Link(RefV2("Target"))>> >>],
    TargetListResponse |-> [properties |->
                             << <<"data", [type |-> "array", items |-> Link(RefV2("Target"))]>> >>],
    VolumeResponse    |-> [properties |-> << <<"data", Link(RefV2("Volume"))>> >>] ]

BodyV2(name, schema) ==
  << [name |-> name, schema |-> Link(RefV2(schema)), required |-> TRUE, description |-> ""] >>

RespV2(schema) == [description |-> "", schema |-> Link(RefV2(schema))]

\* a path or query parameter of a route
Param(name, in) == [name |-> name, in |-> in, required |-> in = "path", description |-> ""]

paths_v2 ==
     "/things/" :>
       [ get  |-> [parameters |-> << Param("maxResults", "query") >>,
                   responses |-> ("200" :> RespV2("ThingListResponse"))],
         post |-> [parameters |-> BodyV2("thingObject", "Thing"),
                   responses |-> ("201" :> RespV2("ThingResponse"))] ]
  @@ "/things/{thingId}/" :>
       [ parameters |-> << Param("thingId", "path") >>,
         get    |-> [parameters |-> << Param("maxResults", "query") >>,
                     responses |-> ("200" :> RespV2("ThingResponse"))],
         patch  |-> [parameters |-> BodyV2("thingObject", "Thing"),
                     responses |-> ("200" :> RespV2("ThingResponse"))],
         delete |-> [responses |-> ("204" :> [description |-> ""])] ]
  @@ "/targets/" :>
       [ get   |-> [responses |-> ("200" :> RespV2("TargetListResponse"))],
         patch |-> [parameters |-> BodyV2("targetObject", "Target"),
                    responses |-> ("200" :> RespV2("TargetResponse"))] ]
  @@ "/volumes/{volumeId}/actions/attach/" :>
       [ parameters |-> << Param("volumeId", "path") >>,
         post  |-> [parameters |-> BodyV2("volumeObject", "Volume"),
                    responses |-> ("202" :> RespV2("VolumeResponse"))],
         patch |-> [parameters |-> BodyV2("volumeObject", "Volume"),
                    responses |-> ("200" :> RespV2("VolumeResponse"))] ]

raw_spec_v2 == [basePath |-> "/api", definitions |-> definitions_v2, paths |-> paths_v2]

definitions_v3 ==
  [ Named  |-> [properties |-> << <<"name", Str>> >>],
    Owner  |-> [allOf |-> << Link(RefV3("Named")),
                             ( "properties" :> << <<"id", RO>>, <<"scope", Str>> >>
                            @@ "x-createOnly" :> <<"scope">> ) >>],
    Env    |-> [properties |-> << <<"id", Integer>> >>],
    Tag    |-> [properties |-> << <<"id", Flag>> >>],
    Thing  |-> ( "properties" :> << <<"id", RO>>, <<"name", Str>>, <<"scope", Str>>,
                                    <<"owner", Link(RefV3("Owner"))>>,
                                    <<"env", Link(RefV3("Env"))>>,
                                    <<"tag", Link(RefV3("Tag"))>> >>
              @@ "x-createOnly" :> <<"scope">> ),
    Target |-> ( "discriminator" :> [propertyName |-> "type"]
              @@ "properties" :> << <<"type", Str>> >>
              @@ "x-concreteTypes" :> Concrete(<<RefV3("Disk"), RefV3("Cloud")>>) ),
    Cloud  |-> ( "properties" :> << <<"type", Str>> >>
              @@ "x-concreteTypes" :> Concrete(<<RefV3("Aws")>>) ),
    Disk   |-> ( "properties" :> << <<"type", Str>>, <<"id", RO>>, <<"scope", Str>>,
                                    <<"owner", Link(RefV3("Owner"))>> >>
              @@ "x-createOnly" :> <<"scope">> ),
    Aws    |-> ( "properties" :> << <<"type", Str>>, <<"name", Str>>,
                                    <<"owner", Link(RefV3("Target"))>> >> ),
    Volume |-> ( "discriminator" :> [propertyName |-> "type"]
              @@ "properties" :> << <<"type", Str>> >>
              @@ "x-concreteTypes" :> Concrete(<<RefV3("Disk")>>) ),
    ThingResponse     |-> [properties |-> << <<"data", Link(RefV3("Thing"))>> >>],
    ThingListResponse |-> [properties |->
                             << <<"data", [type |-> "array", items |-> Link(RefV3("Thing"))]>> >>],
    TargetResponse    |-> [properties |->
                             << <<"data", [oneOf |-> Concrete(<<RefV3("Disk"), RefV3("Aws")>>)]>> >>],
    TargetListResponse |-> [properties |->
                             << <<"data", [type |-> "array",
                                           items |-> [oneOf |-> Concrete(<<RefV3("Disk"),
                                                                           RefV3("Aws")>>)]]>> >>],
    VolumeResponse    |-> [properties |-> << <<"data", Link(RefV3("Volume"))>> >>] ]

Content(schema) == "application/json" :> [schema |-> Link(RefV3(schema))]

BodyV3(schema) == [content |-> Content(schema), required |-> TRUE, description |-> ""]

\* a request body that is one of several types, told apart by `type`
BodyOneOfV3(schemas) ==
  [content |-> ("application/json" :>
                  [schema |-> [oneOf |-> Concrete(schemas),
                               discriminator |-> [propertyName |-> "type"]]]),
   required |-> TRUE, description |-> ""]

RespV3(schema) == [description |-> "", content |-> Content(schema)]

responses_v3 == [ThingDetails |-> RespV3("ThingResponse")]

paths_v3 ==
     "/things/" :>
       [ get  |-> [responses |-> ("200" :> RespV3("ThingListResponse"))],
         post |-> [requestBody |-> BodyV3("Thing"),
                   responses |-> ("201" :> RespV3("ThingResponse"))] ]
  @@ "/things/{thingId}/" :>
       [ parameters |-> << Link(<<"#", "components", "parameters", "thingId">>) >>,
         get    |-> [responses |-> ("200" :> Link(<<"#", "components", "responses", "ThingDetails">>))],
         patch  |-> [requestBody |-> BodyV3("Thing"),
                     responses |-> ("200" :> RespV3("ThingResponse"))],
         delete |-> [responses |-> ("204" :> [description |-> ""])] ]
  @@ "/targets/" :>
       [ get   |-> [responses |-> ("200" :> RespV3("TargetListResponse"))],
         patch |-> [requestBody |-> BodyV3("Target"),
                    responses |-> ("200" :> RespV3("TargetResponse"))] ]
  @@ "/volumes/{volumeId}/actions/attach/" :>
       [ parameters |-> << Param("volumeId", "path") >>,
         post  |-> [requestBody |-> BodyOneOfV3(<<RefV3("Disk"), RefV3("Aws")>>),
                    responses |-> ("202" :> RespV3("VolumeResponse"))],
         patch |-> [requestBody |-> BodyOneOfV3(<<RefV3("Disk"), RefV3("Aws")>>),
                    responses |-> ("200" :> RespV3("VolumeResponse"))] ]

raw_spec_v3 ==
  [ servers |-> << [url |-> "/api/"] >>,
    components |-> [schemas |-> definitions_v3, responses |-> responses_v3,
                    parameters |-> [thingId |-> Param("thingId", "path")]],
    paths |-> paths_v3 ]

Routes == DOMAIN paths_v2

(***************************************************************************)
(* get_spec: the document decides the implementation class.                *)
(***************************************************************************)
Versions == {"v2", "v3"}

is_openapi_v3(data) == Has(data, "components") /\ Has(data.components, "schemas")

RawSpecs == {raw_spec_v2, raw_spec_v3}

get_spec(data) == IF is_openapi_v3(data) THEN "v3" ELSE "v2"

RawSpec(version) == IF version = "v3" THEN raw_spec_v3 ELSE raw_spec_v2

(***************************************************************************)
(* utils.lookup and utils.merge_all (scalrctl/utils.py) as the design      *)
(* document describes them: resolve walks the reference path through the   *)
(* raw document and fails with SchemaError when a segment is absent;       *)
(* mergeAllOf flattens an allOf composition into one node whose properties *)
(* are the union of the branch properties, later branches shadowing        *)
(* earlier ones.                                                           *)
(***************************************************************************)
SchemaError == [exc |-> "SchemaError"]

IsSchemaError(node) == node = SchemaError

RECURSIVE lookup_walk(_, _, _)
lookup_walk(node, paths, i) ==
  IF i > Len(paths) THEN node
  ELSE IF ~Has(node, paths[i]) THEN SchemaError
  ELSE lookup_walk(node[paths[i]], paths, i + 1)

lookup(response_ref, document) == lookup_walk(document, response_ref, 2)

RECURSIVE shadow(_, _)
shadow(items, later) ==
  IF items = <<>> THEN <<>>
  ELSE IF Head(items)[1] \in Keys(later) THEN shadow(Tail(items), later)
  ELSE <<Head(items)>> \o shadow(Tail(items), later)

RECURSIVE merge_blocks(_, _, _)
merge_blocks(blocks, i, document) ==
  IF i > Len(blocks) THEN <<>>
  ELSE LET block == IF Has(blocks[i], "$ref") THEN lookup(blocks[i]["$ref"], document)
                    ELSE blocks[i]
           own   == IF Has(block, "allOf") THEN merge_blocks(block.allOf, 1, document)
                    ELSE IF Has(block, "properties") THEN block.properties ELSE <<>>
           rest  == merge_blocks(blocks, i + 1, document)
       IN  shadow(own, rest) \o rest

merge_all(data, document) == [properties |-> merge_blocks(data.allOf, 1, document)]

(***************************************************************************)
(* _OpenAPIBaseSpec.list_concrete_types / list_concrete_types_recursive    *)
(***************************************************************************)
RECURSIVE list_concrete_types_recursive(_, _)
RECURSIVE list_concrete_types_refs(_, _, _)
list_concrete_types_refs(refs, i, document) ==
  IF i > Len(refs) THEN <<>>
  ELSE list_concrete_types_recursive(refs[i]["$ref"], document)
         \o list_concrete_types_refs(refs, i + 1, document)

\* a variant that also lists the types that declare further concrete types
list_concrete_types_recursive_all(reference, document) ==
  LET schema == lookup(reference, document)
  IN  IF ~Has(schema, "x-concreteTypes") THEN <<reference>>
      ELSE <<reference>> \o list_concrete_types_refs(schema["x-concreteTypes"], 1, document)

list_concrete_types_recursive(reference, document) ==
  LET schema == lookup(reference, document)
  IN  IF ~Has(schema, "x-concreteTypes") THEN <<reference>>
      ELSE list_concrete_types_refs(schema["x-concreteTypes"], 1, document)

\* the schemas of a document, by name
Schemas(document) ==
  IF Has(document, "components") THEN document.components.schemas ELSE document.definitions

\* list_concrete_types_recursive keeps no record of the references it has
\* been at.  A chain of x-concreteTypes references longer than the number
\* of schemas of the document has come back to a schema on it, and the
\* recursion goes on until the interpreter gives up (RecursionError).
RECURSIVE recursion_exceeded(_, _, _)
recursion_exceeded(schema, document, left) ==
  /\ Has(schema, "x-concreteTypes")
  /\ \/ left = 0
     \/ \E i \in 1..Len(schema["x-concreteTypes"]) :
          recursion_exceeded(lookup(schema["x-concreteTypes"][i]["$ref"], document),
                             document, left - 1)

maximum_recursion_depth_exceeded(schema, document) ==
  recursion_exceeded(schema, document, Cardinality(DOMAIN Schemas(document)))

list_concrete_types(schema, document) ==
  IF Has(schema, "x-concreteTypes")
  THEN LET links == list_concrete_types_refs(schema["x-concreteTypes"], 1, document)
       IN  [i \in 1..Len(links) |-> Last(links[i])]
  ELSE <<>>

(***************************************************************************)
(* Python truthiness of a JSON value, str.format of a reference, and the   *)
(* shape of what a call hands back: exc names the raised exception ("" if  *)
(* the call returned), msg what its message is about, filtered the         *)
(* returned dict, mem the memory the call leaves behind.                   *)
(*   mem.disc     _OpenAPIBaseSpec._discriminators                         *)
(*   mem.origin   history: for each cache key, the reference of the schema *)
(*                that was being filtered when the entry was stored        *)
(*   mem.crossed  history: the cache reads that supplied a discriminator   *)
(*                to a schema other than the one that stored the entry     *)
(*   msg.at       history: the cache key of the call that raised           *)
(***************************************************************************)
IsDict(v) == v # None /\ Has(v, "obj")

Truthy(v) ==
  IF v = None THEN FALSE
  ELSE IF Has(v, "str") THEN v.str # "" ELSE v.obj # <<>>

str_format(reference) == IF reference = None THEN <<"None">> ELSE reference

NoMsg == [kind |-> "", param |-> "", value |-> None, at |-> None]

Returned(filtered, mem) == [exc |-> "", msg |-> NoMsg, filtered |-> filtered, mem |-> mem]

Raised(exc, kind, param, value, at, mem) ==
  [exc |-> exc, msg |-> [kind |-> kind, param |-> param, value |-> value, at |-> at],
   filtered |-> None, mem |-> mem]

Store(mem, disc_path, disc_value, governing) ==
  [mem EXCEPT !.disc   = (disc_path :> disc_value) @@ @,
              !.origin = (disc_path :> governing) @@ @]

\* the frames of filter_json_object: one more while a recursive call runs
Deeper(mem) ==
  [mem EXCEPT !.depth = @ + 1,
              !.deepest = IF mem.depth + 1 > @ THEN mem.depth + 1 ELSE @]

Shallower(mem) == [mem EXCEPT !.depth = @ - 1]

Consult(mem, disc_path, from_data, governing) ==
  IF ~Truthy(from_data) /\ Has(mem.disc, disc_path) /\ mem.origin[disc_path] # governing
  THEN [mem EXCEPT !.crossed = @ \cup {[path |-> disc_path,
                                        stored_for |-> mem.origin[disc_path],
                                        used_for |-> governing]}]
  ELSE mem

\* Mutation: the cached value wins over the value the data carries.
disc_value_of_cache_first(from_data, cached) ==
  IF cached # None THEN cached ELSE from_data

\* data.get(disc_key) or self._discriminators.get(disc_path)
disc_value_of(from_data, cached) == IF Truthy(from_data) THEN from_data ELSE cached

(***************************************************************************)
(* The three "continue" tests of the property loop (identical in the v2    *)
(* and the v3 filter_json_object).  schema.get('x-createOnly', '') is kept *)
(* as the list, the '' default as the empty list.                          *)
(***************************************************************************)
unknown_key(p_key, data) == ~Has(data, p_key)

\* Mutation: the readOnly mark of a property is not honoured.
read_only_key_ignored(p_value) == FALSE

read_only_key(p_value) == Has(p_value, "readOnly") /\ p_value.readOnly

\* Mutation: the x-createOnly list is not honoured.
create_only_key_ignored(p_key, filter_createonly, create_only_props) == FALSE

create_only_key(p_key, filter_createonly, create_only_props) ==
  filter_createonly /\ InList(p_key, create_only_props)

create_only_props_of(schema) ==
  IF Has(schema, "x-createOnly") THEN schema["x-createOnly"] ELSE <<>>

(***************************************************************************)
(* _OpenAPIv2Spec                                                          *)
(***************************************************************************)
get_body_type_params_v2(route, http_method) ==
  LET route_data == raw_spec.paths[route][http_method]
      data == IF Has(route_data, "parameters") THEN route_data.parameters ELSE <<>>
  IN  IF data # <<>>
      THEN [schema |-> Get(data[1], "schema"), required |-> Get(data[1], "required"),
            description |-> Get(data[1], "description"), name |-> <<Get(data[1], "name")>>]
      ELSE <<>>

_get_schema_v2(route, http_method) ==
  LET param == get_body_type_params_v2(route, http_method)
  IN  IF Has(param, "schema")
      THEN IF Has(param.schema, "$ref") THEN lookup(param.schema["$ref"], raw_spec)
           ELSE param.schema
      ELSE None

governing_v2(route, http_method, schema, reference) ==
  IF schema = None
  THEN Get(Get(get_body_type_params_v2(route, http_method), "schema"), "$ref")
  ELSE reference

RECURSIVE filter_json_object_v2(_, _, _, _, _, _, _)
RECURSIVE load_schema_v2(_, _, _, _, _, _, _, _)
RECURSIVE load_child_v2(_, _, _, _, _, _, _, _, _, _)
RECURSIVE filter_by_schema_v2(_, _, _, _, _, _, _)
RECURSIVE filter_properties_v2(_, _, _, _, _, _, _, _, _)
RECURSIVE filter_property_v2(_, _, _, _, _, _, _, _, _, _, _)
RECURSIVE filter_sub_object_v2(_, _, _, _, _, _, _, _, _, _, _)

\* The recursive call returned: its exception propagates, else the filtered
\* sub-object is stored under p_key and the loop goes on.
filter_sub_object_v2(sub, p_key, items, i, data, route, http_method, filter_createonly, create_only_props, filtered, mem) ==
  IF sub.exc # "" THEN sub
  ELSE filter_properties_v2(items, i + 1, data, route, http_method, filter_createonly,
                            create_only_props, (p_key :> [obj |-> sub.filtered]) @@ filtered,
                            Shallower(sub.mem))

\* One round of `for p_key, p_value in schema['properties'].items()`.
filter_property_v2(p_key, p_value, items, i, data, route, http_method, filter_createonly, create_only_props, filtered, mem) ==
  IF \/ unknown_key(p_key, data)
     \/ read_only_key(p_value)
     \/ create_only_key(p_key, filter_createonly, create_only_props)
  THEN filter_properties_v2(items, i + 1, data, route, http_method, filter_createonly,
                            create_only_props, filtered, mem)
  ELSE IF Has(p_value, "$ref") /\ IsDict(data[p_key])
  THEN filter_sub_object_v2(
         filter_json_object_v2(data[p_key].obj, route, http_method, filter_createonly,
                               lookup(p_value["$ref"], raw_spec), p_value["$ref"], Deeper(mem)),
         p_key, items, i, data, route, http_method, filter_createonly, create_only_props,
         filtered, mem)
  ELSE filter_properties_v2(items, i + 1, data, route, http_method, filter_createonly,
                            create_only_props, (p_key :> data[p_key]) @@ filtered, mem)

filter_properties_v2(items, i, data, route, http_method, filter_createonly, create_only_props, filtered, mem) ==
  IF i > Len(items) THEN Returned(filtered, mem)
  ELSE filter_property_v2(items[i][1], items[i][2], items, i, data, route, http_method,
                          filter_createonly, create_only_props, filtered, mem)

\* "filter input data by properties of `schema`"
filter_by_schema_v2(data, route, http_method, filter_createonly, schema, reference, mem) ==
  IF schema # None /\ Has(schema, "properties")
  THEN filter_properties_v2(schema.properties, 1, data, route, http_method,
                            filter_createonly, create_only_props_of(schema), <<>>, mem)
  ELSE Returned(<<>>, mem)

\* Mutation: the value is saved in the cache before it is checked.
load_child_v2_store_first(data, route, http_method, filter_createonly, schema, mem, governing, disc_key, disc_path, disc_value) ==
  IF ~Truthy(disc_value)
  THEN Raised("ClickException", "missing", disc_key, None, disc_path, mem)
  ELSE IF maximum_recursion_depth_exceeded(schema, raw_spec)
  THEN Raised("RecursionError", "list_concrete_types", disc_key, disc_value, disc_path,
              Consult(mem, disc_path, Get(data, disc_key), governing))
  ELSE IF ~(Has(disc_value, "str")
            /\ InList(disc_value.str, list_concrete_types(schema, raw_spec)))
  THEN Raised("ClickException", "invalid", disc_key, disc_value, disc_path,
              Store(Consult(mem, disc_path, Get(data, disc_key), governing),
                    disc_path, disc_value, governing))
  ELSE filter_by_schema_v2(data, route, http_method, filter_createonly,
                           lookup(RefV2(disc_value.str), raw_spec),
                           RefV2(disc_value.str),
                           Store(Consult(mem, disc_path, Get(data, disc_key), governing),
                                 disc_path, disc_value, governing))

\* "load child object as `schema`", once disc_key, disc_path and disc_value
\* are known: the two raises, else the cache write and the re-resolution.
load_child_v2(data, route, http_method, filter_createonly, schema, mem, governing, disc_key, disc_path, disc_value) ==
  IF ~Truthy(disc_value)
  THEN Raised("ClickException", "missing", disc_key, None, disc_path, mem)
  ELSE IF maximum_recursion_depth_exceeded(schema, raw_spec)
  THEN Raised("RecursionError", "list_concrete_types", disc_key, disc_value, disc_path,
              Consult(mem, disc_path, Get(data, disc_key), governing))
  ELSE IF ~(Has(disc_value, "str")
            /\ InList(disc_value.str, list_concrete_types(schema, raw_spec)))
  THEN Raised("ClickException", "invalid", disc_key, disc_value, disc_path,
              Consult(mem, disc_path, Get(data, disc_key), governing))
  ELSE filter_by_schema_v2(data, route, http_method, filter_createonly,
                           lookup(RefV2(disc_value.str), raw_spec),
                           RefV2(disc_value.str),
                           Store(Consult(mem, disc_path, Get(data, disc_key), governing),
                                 disc_path, disc_value, governing))

load_schema_v2(data, route, http_method, filter_createonly, schema, reference, mem, governing) ==
  IF Has(schema, "discriminator")
  THEN load_child_v2(data, route, http_method, filter_createonly, schema, mem, governing,
                     schema.discriminator,
                     str_format(reference) \o <<schema.discriminator>>,
                     disc_value_of(Get(data, schema.discriminator),
                                   Get(mem.disc, str_format(reference)
                                                   \o <<schema.discriminator>>)))
  ELSE filter_by_schema_v2(data, route, http_method, filter_createonly, schema, reference, mem)

filter_json_object_v2(data, route, http_method, filter_createonly, schema, reference, mem) ==
  load_schema_v2(data, route, http_method, filter_createonly,
                 IF schema = None THEN _get_schema_v2(route, http_method) ELSE schema,
                 reference, mem,
                 governing_v2(route, http_method, schema, reference))

(***************************************************************************)
(* _OpenAPIv3Spec                                                          *)
(***************************************************************************)
RECURSIVE list_references_oneof(_, _)
list_references_oneof(list_typedata, i) ==
  IF i > Len(list_typedata) THEN <<>>
  ELSE (IF Has(list_typedata[i], "$ref") THEN <<list_typedata[i]["$ref"]>> ELSE <<>>)
         \o list_references_oneof(list_typedata, i + 1)

get_body_type_params_v3(route, http_method) ==
  LET route_data == raw_spec.paths[route][http_method]
  IN  IF Has(route_data, "requestBody")
      THEN LET request_body == route_data.requestBody
               raw_block == IF Has(request_body, "$ref")
                            THEN lookup(request_body["$ref"], raw_spec)
                            ELSE request_body
               schema == raw_block.content["application/json"].schema
               refs   == list_references_oneof(schema.oneOf, 1)
               param  == [schema |-> schema, required |-> Get(raw_block, "required"),
                          description |-> Get(raw_block, "description")]
           IN  IF Has(schema, "$ref")
               THEN ("name" :> <<IF Has(raw_block, "name") THEN raw_block.name
                                 ELSE Last(schema["$ref"])>>) @@ param
               ELSE IF Has(schema, "oneOf")
               THEN ("name" :> [i \in 1..Len(refs) |-> Last(refs[i])]) @@ param
               ELSE param
      ELSE <<>>

_merge_all(data) == merge_all(data, raw_spec)

_get_schema_v3(route, http_method) ==
  LET param == get_body_type_params_v3(route, http_method)
  IN  IF Has(param, "schema")
      THEN IF Has(param.schema, "$ref") THEN lookup(param.schema["$ref"], raw_spec)
           ELSE param.schema
      ELSE None

governing_v3(route, http_method, schema, reference) ==
  IF schema = None
  THEN Get(Get(get_body_type_params_v3(route, http_method), "schema"), "$ref")
  ELSE reference

RECURSIVE filter_json_object_v3(_, _, _, _, _, _, _)
RECURSIVE load_schema_v3(_, _, _, _, _, _, _, _)
RECURSIVE load_child_v3(_, _, _, _, _, _, _, _, _, _)
RECURSIVE check_child_v3(_, _, _, _, _, _, _, _, _, _)
RECURSIVE filter_by_schema_v3(_, _, _, _, _, _, _)
RECURSIVE filter_properties_v3(_, _, _, _, _, _, _, _, _)
RECURSIVE filter_property_v3(_, _, _, _, _, _, _, _, _, _, _)
RECURSIVE filter_sub_object_v3(_, _, _, _, _, _, _, _, _, _, _)

\* lookup(p_value['$ref']) followed by the allOf merge
sub_schema_v3(looked) == IF Has(looked, "allOf") THEN _merge_all(looked) ELSE looked

filter_sub_object_v3(sub, p_key, items, i, data, route, http_method, filter_createonly, create_only_props, filtered, mem) ==
  IF sub.exc # "" THEN sub
  ELSE filter_properties_v3(items, i + 1, data, route, http_method, filter_createonly,
                            create_only_props, (p_key :> [obj |-> sub.filtered]) @@ filtered,
                            Shallower(sub.mem))

\* One round of `for p_key, p_value in schema['properties'].items()`.
filter_property_v3(p_key, p_value, items, i, data, route, http_method, filter_createonly, create_only_props, filtered, mem) ==
  IF \/ unknown_key(p_key, data)
     \/ read_only_key(p_value)
     \/ create_only_key(p_key, filter_createonly, create_only_props)
  THEN filter_properties_v3(items, i + 1, data, route, http_method, filter_createonly,
                            create_only_props, filtered, mem)
  ELSE IF Has(p_value, "$ref") /\ IsDict(data[p_key])
  THEN filter_sub_object_v3(
         filter_json_object_v3(data[p_key].obj, route, http_method, filter_createonly,
                               sub_schema_v3(lookup(p_value["$ref"], raw_spec)),
                               p_value["$ref"], Deeper(mem)),
         p_key, items, i, data, route, http_method, filter_createonly, create_only_props,
         filtered, mem)
  ELSE filter_properties_v3(items, i + 1, data, route, http_method, filter_createonly,
                            create_only_props, (p_key :> data[p_key]) @@ filtered, mem)

filter_properties_v3(items, i, data, route, http_method, filter_createonly, create_only_props, filtered, mem) ==
  IF i > Len(items) THEN Returned(filtered, mem)
  ELSE filter_property_v3(items[i][1], items[i][2], items, i, data, route, http_method,
                          filter_createonly, create_only_props, filtered, mem)

\* "filter input data by properties of `schema`"
filter_by_schema_v3(data, route, http_method, filter_createonly, schema, reference, mem) ==
  IF schema # None /\ Has(schema, "properties")
  THEN filter_properties_v3(schema.properties, 1, data, route, http_method,
                            filter_createonly, create_only_props_of(schema), <<>>, mem)
  ELSE Returned(<<>>, mem)

\* The membership test, made on the re-resolved (concrete, merged) schema,
\* and the cache write.
check_child_v3(data, route, http_method, filter_createonly, schema, mem, governing, disc_key, disc_path, disc_value) ==
  IF maximum_recursion_depth_exceeded(schema, raw_spec)
  THEN Raised("RecursionError", "list_concrete_types", disc_key, disc_value, disc_path,
              Consult(mem, disc_path, Get(data, disc_key), governing))
  ELSE IF ~InList(disc_value.str, list_concrete_types(schema, raw_spec))
  THEN Raised("ClickException", "invalid", disc_key, disc_value, disc_path,
              Consult(mem, disc_path, Get(data, disc_key), governing))
  ELSE filter_by_schema_v3(data, route, http_method, filter_createonly, schema,
                           RefV3(disc_value.str),
                           Store(Consult(mem, disc_path, Get(data, disc_key), governing),
                                 disc_path, disc_value, governing))

\* "load child object as `schema`", once disc_key, disc_path and disc_value
\* are known: the raise for a missing value, then the lookup of the
\* reference built from the value and the allOf merge.
load_child_v3(data, route, http_method, filter_createonly, schema, mem, governing, disc_key, disc_path, disc_value) ==
  IF ~Truthy(disc_value)
  THEN Raised("ClickException", "missing", disc_key, None, disc_path, mem)
  ELSE IF IsSchemaError(lookup(RefV3(disc_value.str), raw_spec))
  THEN Raised("SchemaError", "lookup", disc_key, disc_value, disc_path,
              Consult(mem, disc_path, Get(data, disc_key), governing))
  ELSE check_child_v3(data, route, http_method, filter_createonly,
                      sub_schema_v3(lookup(RefV3(disc_value.str), raw_spec)),
                      mem, governing, disc_key, disc_path, disc_value)

load_schema_v3(data, route, http_method, filter_createonly, schema, reference, mem, governing) ==
  IF Has(schema, "discriminator")
  THEN load_child_v3(data, route, http_method, filter_createonly, schema, mem, governing,
                     schema.discriminator.propertyName,
                     str_format(reference) \o <<schema.discriminator.propertyName>>,
                     disc_value_of(Get(data, schema.discriminator.propertyName),
                                   Get(mem.disc, str_format(reference)
                                                   \o <<schema.discriminator.propertyName>>)))
  ELSE filter_by_schema_v3(data, route, http_method, filter_createonly, schema, reference, mem)

filter_json_object_v3(data, route, http_method, filter_createonly, schema, reference, mem) ==
  load_schema_v3(data, route, http_method, filter_createonly,
                 IF schema = None THEN _get_schema_v3(route, http_method) ELSE schema,
                 reference, mem,
                 governing_v3(route, http_method, schema, reference))

filter_json_object(version, data, route, http_method, filter_createonly, mem) ==
  IF version = "v3"
  THEN filter_json_object_v3(data, route, http_method, filter_createonly, None, None, mem)
  ELSE filter_json_object_v2(data, route, http_method, filter_createonly, None, None, mem)

(***************************************************************************)
(* Inputs: the JSON objects a caller, the standard input, the editor or    *)
(* the server can supply.  Keys are drawn from the property names of the   *)
(* documents; "type" carries a discriminator value: a leaf type, an        *)
(* intermediate type (Cloud), a name no schema has (Bogus) or the empty    *)
(* string.                                                                 *)
(***************************************************************************)
MaxKeys == 3

MaxNestedKeys == 2

TopKeys == {"id", "name", "scope", "type", "owner"}

NestedKeys == {"id", "name", "scope", "type"}

Scalar(value) == [str |-> value]

TypeValues == {"", "Disk", "Aws", "Cloud", "Bogus"}

NestedTypeValues == {"Disk", "Bogus"}

NestedChoices ==
  [k \in NestedKeys |->
     IF k = "type" THEN {Scalar(t) : t \in NestedTypeValues} ELSE {Scalar("x")}]

ObjectsOver(choices, max) ==
  UNION { { f \in [ks -> UNION {choices[k] : k \in ks}] : \A k \in ks : f[k] \in choices[k] }
          : ks \in {x \in SUBSET DOMAIN choices : Cardinality(x) <= max} }

NestedObjects == ObjectsOver(NestedChoices, MaxNestedKeys)

TopChoices ==
  [k \in TopKeys |->
     IF k = "type" THEN {Scalar(t) : t \in TypeValues}
     ELSE IF k = "owner" THEN {Scalar("x")} \cup {[obj |-> n] : n \in NestedObjects}
     ELSE {Scalar("x")}]

JsonObjects == ObjectsOver(TopChoices, MaxKeys)

(***************************************************************************)
(* Response resolution: get_response_ref, result_descr and                 *)
(* get_iterable_object.  A call ends with a value or with the exception    *)
(* the interpreter raises (KeyError for a missing subscript, TypeError for *)
(* `in` applied to None).                                                  *)
(***************************************************************************)
Value(value) == [exc |-> "", value |-> value]

Thrown(exc) == [exc |-> exc, value |-> None]

\* schema['properties'][key] over the item list: the value, or KeyError
ItemOf(items, key) == items[CHOOSE i \in 1..Len(items) : items[i][1] = key][2]

\* data_structure.get('type') == 'array'
is_array(data_structure) == Has(data_structure, "type") /\ data_structure.type = "array"

get_response_ref_v2(route, http_method) ==
  LET responses == raw_spec.paths[route][http_method].responses
      response_code == SUCCESS_CODES[http_method]
  IN  IF /\ Has(responses, response_code)
         /\ Has(responses[response_code], "schema")
         /\ Has(responses[response_code].schema, "$ref")
      THEN Value(responses[response_code].schema["$ref"])
      ELSE Value(None)

get_iterable_object_v2(route, http_method) ==
  LET responses == raw_spec.paths[route][http_method].responses
      response_code == SUCCESS_CODES[http_method]
  IN  IF /\ Has(responses, response_code)
         /\ Has(responses[response_code], "schema")
         /\ Has(responses[response_code].schema, "$ref")
      THEN LET object_key == Last(responses[response_code].schema["$ref"])
           IN  IF ~Has(raw_spec.definitions, object_key) THEN Thrown("KeyError")
               ELSE IF ~Has(raw_spec.definitions[object_key], "properties")
               THEN Thrown("KeyError")
               ELSE IF "data" \notin Keys(raw_spec.definitions[object_key].properties)
               THEN Thrown("KeyError")
               ELSE Value(is_array(ItemOf(raw_spec.definitions[object_key].properties,
                                          "data")))
      ELSE Value(FALSE)

\* response_200 once a `$ref` entry has been looked up
resolved_response_v3(response_200) ==
  IF Has(response_200, "$ref") THEN lookup(response_200["$ref"], raw_spec)
  ELSE response_200

\* response_200['content']['application/json']['schema']['$ref']
content_schema_ref_v3(response_200) ==
  IF IsSchemaError(response_200) THEN Thrown("SchemaError")
  ELSE IF ~Has(response_200, "content") THEN Thrown("KeyError")
  ELSE IF ~Has(response_200.content, "application/json") THEN Thrown("KeyError")
  ELSE IF ~Has(response_200.content["application/json"], "schema") THEN Thrown("KeyError")
  ELSE IF ~Has(response_200.content["application/json"].schema, "$ref")
  THEN Thrown("KeyError")
  ELSE Value(response_200.content["application/json"].schema["$ref"])

get_response_ref_v3(route, http_method) ==
  LET responses == raw_spec.paths[route][http_method].responses
  IN  IF ~Has(responses, SUCCESS_CODES[http_method]) THEN Thrown("TypeError")
      ELSE content_schema_ref_v3(resolved_response_v3(responses[SUCCESS_CODES[http_method]]))

\* the tail of get_iterable_object: schema['properties']['data'] is an array
data_is_array_v3(schema) ==
  IF IsSchemaError(schema) THEN Thrown("SchemaError")
  ELSE IF ~Has(schema, "properties") THEN Thrown("KeyError")
  ELSE IF "data" \notin Keys(schema.properties) THEN Thrown("KeyError")
  ELSE Value(is_array(ItemOf(schema.properties, "data")))

iterable_response_v3(response_200) ==
  IF IsSchemaError(response_200) THEN Thrown("SchemaError")
  ELSE IF ~Has(response_200, "content") THEN Thrown("KeyError")
  ELSE IF ~Has(response_200.content, "application/json") THEN Thrown("KeyError")
  ELSE IF ~Has(response_200.content["application/json"], "schema") THEN Value(FALSE)
  ELSE IF Has(response_200.content["application/json"].schema, "$ref")
  THEN data_is_array_v3(lookup(response_200.content["application/json"].schema["$ref"],
                               raw_spec))
  ELSE data_is_array_v3(response_200.content["application/json"].schema)

\* The responses are read from the route's 'get' operation, whatever
\* http_method is.
get_iterable_object_v3(route, http_method) ==
  IF ~Has(raw_spec.paths[route], "get") THEN Thrown("KeyError")
  ELSE IF Has(raw_spec.paths[route].get.responses, SUCCESS_CODES[http_method])
  THEN iterable_response_v3(resolved_response_v3(
         raw_spec.paths[route].get.responses[SUCCESS_CODES[http_method]]))
  ELSE Value(FALSE)

get_response_ref(version, route, http_method) ==
  IF version = "v3" THEN get_response_ref_v3(route, http_method)
  ELSE get_response_ref_v2(route, http_method)

get_iterable_object(version, route, http_method) ==
  IF version = "v3" THEN get_iterable_object_v3(route, http_method)
  ELSE get_iterable_object_v2(route, http_method)

\* lookup(ref) when ref is truthy, else the implicit None
descr_of(ref, document) ==
  IF ref.exc # "" THEN ref
  ELSE IF ref.value = None THEN Value(None)
  ELSE IF IsSchemaError(lookup(ref.value, document)) THEN Thrown("SchemaError")
  ELSE Value(lookup(ref.value, document))

result_descr(version, route, http_method) ==
  descr_of(get_response_ref(version, route, http_method), raw_spec)

(***************************************************************************)
(* get_column_names and handle_oneof.                                      *)
(***************************************************************************)
\* f_key has the single property `id`, whatever its type
is_id_object_of_any_type(f_key) ==
  /\ Has(f_key, "properties")
  /\ Len(f_key.properties) = 1
  /\ f_key.properties[1][1] = "id"

\* f_key has the single property `id`, of type integer or string
is_id_object(f_key) ==
  /\ Has(f_key, "properties")
  /\ Len(f_key.properties) = 1
  /\ f_key.properties[1][1] = "id"
  /\ Has(f_key.properties[1][2], "type")
  /\ f_key.properties[1][2].type \in {"integer", "string"}

\* the loop `for k, v in properties.items()`, the same in both classes
RECURSIVE column_names_of(_, _, _, _)
column_names_of(properties, i, column_names, document) ==
  IF i > Len(properties) THEN Value(column_names)
  ELSE IF ~Has(properties[i][2], "$ref")
  THEN column_names_of(properties, i + 1, Append(column_names, properties[i][1]), document)
  ELSE IF IsSchemaError(lookup(properties[i][2]["$ref"], document))
  THEN Thrown("SchemaError")
  ELSE IF is_id_object(lookup(properties[i][2]["$ref"], document))
  THEN column_names_of(properties, i + 1,
                       Append(column_names, properties[i][1] \o ".id"), document)
  ELSE column_names_of(properties, i + 1, column_names, document)

\* self.result_descr(route, http_method)['properties']['data']
response_data(descr) ==
  IF descr.exc # "" THEN descr
  ELSE IF descr.value = None THEN Thrown("TypeError")
  ELSE IF ~Has(descr.value, "properties") THEN Thrown("KeyError")
  ELSE IF "data" \notin Keys(descr.value.properties) THEN Thrown("KeyError")
  ELSE Value(ItemOf(descr.value.properties, "data"))

\* data['items']['$ref'] if 'items' in data else data['$ref']
response_ref_v2(data) ==
  IF Has(data, "items")
  THEN IF Has(data.items, "$ref") THEN Value(data.items["$ref"]) ELSE Thrown("KeyError")
  ELSE IF Has(data, "$ref") THEN Value(data["$ref"]) ELSE Thrown("KeyError")

response_columns_v2(response_descr) ==
  IF IsSchemaError(response_descr) THEN Thrown("SchemaError")
  ELSE IF ~Has(response_descr, "properties") THEN Thrown("KeyError")
  ELSE column_names_of(response_descr.properties, 1, <<>>, raw_spec)

columns_of_ref_v2(response_ref) ==
  IF response_ref.exc # "" THEN response_ref
  ELSE response_columns_v2(lookup(response_ref.value, raw_spec))

columns_of_data_v2(data) ==
  IF data.exc # "" THEN data ELSE columns_of_ref_v2(response_ref_v2(data.value))

get_column_names_v2(route, http_method, obj_type) ==
  columns_of_data_v2(response_data(result_descr("v2", route, http_method)))

\* The reference of the oneOf branch whose short name is obj_type, or None.
RECURSIVE handle_oneof_from(_, _, _)
handle_oneof_from(list_typedata, i, obj_type) ==
  IF i > Len(list_typedata) THEN None
  ELSE IF /\ Has(list_typedata[i], "$ref")
          /\ obj_type # None
          /\ Last(list_typedata[i]["$ref"]) = obj_type.str
  THEN list_typedata[i]["$ref"]
  ELSE handle_oneof_from(list_typedata, i + 1, obj_type)

handle_oneof(data, obj_type) == handle_oneof_from(data.oneOf, 1, obj_type)

\* What the branches on `data` leave in response_ref.  `returns` ends the
\* call with the empty column list; a name never bound is UnboundLocalError.
Ref(value) == [exc |-> "", returns |-> FALSE, value |-> value]

response_ref_v3(data, obj_type) ==
  IF Has(data, "items")
  THEN IF Has(data.items, "oneOf")
       THEN IF handle_oneof(data.items, obj_type) = None
            THEN [exc |-> "", returns |-> TRUE, value |-> None]
            ELSE Ref(handle_oneof(data.items, obj_type))
       ELSE IF Has(data.items, "$ref") THEN Ref(data.items["$ref"])
       ELSE [exc |-> "KeyError", returns |-> FALSE, value |-> None]
  ELSE IF Has(data, "$ref") THEN Ref(data["$ref"])
  ELSE IF Has(data, "oneOf") THEN Ref(handle_oneof(data, obj_type))
  ELSE [exc |-> "UnboundLocalError", returns |-> FALSE, value |-> None]

\* properties of response_descr, allOf merged
response_properties_v3(response_descr) ==
  IF Has(response_descr, "allOf")
  THEN Get(_merge_all(response_descr), "properties")
  ELSE Get(response_descr, "properties")

\* self.lookup(response_ref) and the loop.  lookup of None cannot resolve.
columns_of_ref_v3(response_ref) ==
  IF response_ref.exc # "" THEN Thrown(response_ref.exc)
  ELSE IF response_ref.returns THEN Value(<<>>)
  ELSE IF response_ref.value = None THEN Thrown("SchemaError")
  ELSE IF IsSchemaError(lookup(response_ref.value, raw_spec)) THEN Thrown("SchemaError")
  ELSE column_names_of(response_properties_v3(lookup(response_ref.value, raw_spec)),
                       1, <<>>, raw_spec)

columns_of_data_v3(data, obj_type) ==
  IF data.exc # "" THEN data ELSE columns_of_ref_v3(response_ref_v3(data.value, obj_type))

get_column_names_v3(route, http_method, obj_type) ==
  columns_of_data_v3(response_data(result_descr("v3", route, http_method)), obj_type)

get_column_names(version, route, http_method, obj_type) ==
  IF version = "v3" THEN get_column_names_v3(route, http_method, obj_type)
  ELSE get_column_names_v2(route, http_method, obj_type)

\* obj_type: absent, the type of a response object, or a name no schema has
ObjTypes == {None, Scalar("Disk"), Scalar("Aws"), Scalar("Bogus")}

(***************************************************************************)
(* Action.pre and Action.run.  An invocation ends with the keyword         *)
(* arguments pre left behind, the cache, the requests handed to the        *)
(* transport, and the exception that ended it, if any.                     *)
(***************************************************************************)
MaxRunKeys == 1

RunObjects == ObjectsOver(TopChoices, MaxRunKeys)

\* json.dumps writes the text of a document; the empty text is no document
json_dumps(object) == [json |-> object]

Blank == [blank |-> TRUE]

json_loads(text) == IF Has(text, "json") THEN Value(text.json) ELSE Thrown("ValueError")

Texts == {Blank} \cup {json_dumps(object) : object \in RunObjects}

\* click.edit returns None when the user saved nothing
EditorTexts == {None} \cup Texts

\* The `{name}` placeholders of the request template of a route.
Placeholders ==
  [route \in Routes |->
     IF route = "/things/{thingId}/" THEN {"thingId"}
     ELSE IF route = "/volumes/{volumeId}/actions/attach/" THEN {"volumeId"}
     ELSE {}]

\* The keyword arguments click passes for the path parameters.
PathArgs(route) == [key \in Placeholders[route] |-> Scalar("7")]

\* `if value` over the values a keyword argument can hold
kw_truthy(value) == IF Has(value, "bool") THEN value.bool ELSE Truthy(value)

get_body_type_params(version, route, http_method) ==
  IF version = "v3" THEN get_body_type_params_v3(route, http_method)
  ELSE get_body_type_params_v2(route, http_method)

\* self._request_template.format(**kwargs)
uri_format(route, kwargs) ==
  [template |-> route, args |-> [key \in Placeholders[route] |-> kwargs[key].str]]

\* Mutation: the path parameters go to the query bag as well.
payload_of_with_path(route, http_method, kwargs) ==
  [key \in {k \in DOMAIN kwargs : /\ kw_truthy(kwargs[k])
                                  /\ http_method \in {"get", "delete"}} |-> kwargs[key]]

\* payload[key] = value, for GET and DELETE
payload_of(route, http_method, kwargs) ==
  [key \in {k \in DOMAIN kwargs : /\ kw_truthy(kwargs[k])
                                  /\ k \notin Placeholders[route]
                                  /\ http_method \in {"get", "delete"}} |-> kwargs[key]]

\* the keys whose value run merges into data
body_keys(version, route, http_method, kwargs) ==
  {k \in DOMAIN kwargs :
     /\ kw_truthy(kwargs[k])
     /\ k \notin Placeholders[route]
     /\ http_method \notin {"get", "delete"}
     /\ get_body_type_params(version, route, http_method) # <<>>
     /\ InList(k, get_body_type_params(version, route, http_method).name)}

\* data.update(value)
data_of(version, route, http_method, kwargs) ==
  IF body_keys(version, route, http_method, kwargs) = {} THEN <<>>
  ELSE kwargs[CHOOSE k \in body_keys(version, route, http_method, kwargs) : TRUE].obj

\* request.request(http_method, api_level, uri, payload, data)
request(http_method, uri, payload, data, sent) ==
  Append(sent, [http_method |-> http_method, uri |-> uri, payload |-> payload,
                    data |-> data])

\* Action.run from `uri = self._request_template` on: a dry run returns the
\* dummy response without calling the transport.
send(version, route, http_method, kwargs, dry_run, sent) ==
  IF dry_run THEN sent
  ELSE request(http_method, uri_format(route, kwargs),
               payload_of(route, http_method, kwargs),
               json_dumps(data_of(version, route, http_method, kwargs)), sent)

Done(exc, kwargs, mem, sent) ==
  [exc |-> exc, kwargs |-> kwargs, mem |-> mem, requests |-> sent]

\* the schema of the body parameter, a `$ref` looked up
param_schema(version, param_data) ==
  IF Has(param_data.schema, "$ref")
  THEN lookup(param_data.schema["$ref"], raw_spec)
  ELSE param_data.schema

\* raw_json_object.get(disc_key)
body_key_of(raw_json_object, disc_key) == Get(raw_json_object, disc_key)

\* Mutation: the key is the first body-parameter name, whatever the object says.
store_body_first_name(version, route, http_method, kwargs, raw_json_object, filtered, sent) ==
  IF filtered.exc # "" THEN Done(filtered.exc, kwargs, filtered.mem, sent)
  ELSE Done("", (get_body_type_params(version, route, http_method).name[1]
                   :> [obj |-> filtered.filtered]) @@ kwargs,
            filtered.mem, sent)

\* The key pre stores the body under, and kwargs[param_name] =
\* filtered_json_object.  filtered is what the filter of the branch returned.
\* A key that is None (the object carries no discriminator) is stored, and
\* run's format(**kwargs) then raises TypeError: keywords must be strings.
store_body(version, route, http_method, kwargs, raw_json_object, filtered, sent) ==
  IF filtered.exc # "" THEN Done(filtered.exc, kwargs, filtered.mem, sent)
  ELSE IF Len(get_body_type_params(version, route, http_method).name) = 1
  THEN Done("", (get_body_type_params(version, route, http_method).name[1]
                   :> [obj |-> filtered.filtered]) @@ kwargs,
            filtered.mem, sent)
  ELSE IF Has(param_schema(version, get_body_type_params(version, route, http_method)),
              "discriminator")
  THEN IF body_key_of(raw_json_object,
                      param_schema(version, get_body_type_params(version, route, http_method))
                        .discriminator.propertyName) = None
       THEN Done("TypeError", kwargs, filtered.mem, sent)
       ELSE Done("", (body_key_of(raw_json_object,
                        param_schema(version,
                                     get_body_type_params(version, route, http_method))
                          .discriminator.propertyName).str
                        :> [obj |-> filtered.filtered]) @@ kwargs,
                 filtered.mem, sent)
  ELSE Done("TypeError", kwargs, filtered.mem, sent)

\* `if import_data:` the body comes from the imported definition
\* utils.reraise: the error stays fatal and ends the invocation
reraise(exc) == exc

\* The last param_name of the loop that is a key of import_data: the one
\* whose object is left in raw_json_object.  None when no name is a key.
RECURSIVE imported_name(_, _, _)
imported_name(param_names, i, import_data) ==
  IF i = 0 THEN None
  ELSE IF Has(import_data, param_names[i]) THEN <<param_names[i]>>
  ELSE imported_name(param_names, i - 1, import_data)

import_object(param_name, version, route, http_method, kwargs, import_data, mem, sent) ==
  IF param_name = None THEN Done("UnboundLocalError", kwargs, mem, sent)
  ELSE TheOne({store_body(version, route, http_method, kwargs,
                          import_data[param_name[1]], filtered, sent) :
                 filtered \in {IF http_method = "patch"
                               THEN filter_json_object(version, import_data[param_name[1]],
                                                       route, http_method, TRUE, mem)
                               ELSE Returned(import_data[param_name[1]], mem)}})

pre_import(version, route, http_method, kwargs, import_data, mem, sent) ==
  import_object(imported_name(get_body_type_params(version, route, http_method).name,
                              Len(get_body_type_params(version, route, http_method).name),
                              import_data),
                version, route, http_method, kwargs, import_data, mem, sent)

got_text(filtered, sent) ==
  [exc |-> reraise(filtered.exc), text |-> json_dumps(filtered.filtered), mem |-> filtered.mem,
   requests |-> sent]

\* A GET action on the same route is run with the same keyword arguments;
\* server is the `data` of its response.
_get_object_as_text(version, route, http_method, kwargs, server, mem, sent) ==
  TheOne({got_text(filtered, send(version, route, "get", kwargs, FALSE, sent)) :
            filtered \in {IF kwargs["filter_createonly"].bool
                          THEN filter_json_object(version, server, route, http_method,
                                                  TRUE, mem)
                          ELSE Returned(server, mem)}})

\* self._read_object() and the filter of what was read, PATCH --stdin
read_object_patch(got, version, route, http_method, kwargs, stdin_text) ==
  IF got.exc # "" THEN Done(got.exc, kwargs, got.mem, got.requests)
  ELSE IF json_loads(stdin_text).exc # ""
  THEN Done(reraise(json_loads(stdin_text).exc), kwargs, got.mem, got.requests)
  ELSE TheOne({store_body(version, route, http_method, kwargs,
                          json_loads(stdin_text).value, filtered, got.requests) :
                 filtered \in {filter_json_object(version, json_loads(stdin_text).value,
                                                  route, http_method, FALSE, got.mem)}})

\* click.edit(filtered_text) and json.loads(editor_text), PATCH editor
edit_filtered(filtered_dict, raw_json_object, version, route, http_method, kwargs, editor_text, sent) ==
  IF filtered_dict.exc # "" THEN Done(filtered_dict.exc, kwargs, filtered_dict.mem, sent)
  ELSE IF editor_text = None THEN Done(reraise("ValueError"), kwargs, filtered_dict.mem, sent)
  ELSE IF json_loads(editor_text).exc # ""
  THEN Done(reraise(json_loads(editor_text).exc), kwargs, filtered_dict.mem, sent)
  ELSE store_body(version, route, http_method, kwargs, raw_json_object,
                  Returned(json_loads(editor_text).value, filtered_dict.mem), sent)

edit_object_patch(got, version, route, http_method, kwargs, editor_text) ==
  IF got.exc # "" THEN Done(got.exc, kwargs, got.mem, got.requests)
  ELSE TheOne({edit_filtered(filtered_dict, json_loads(got.text).value, version, route,
                             http_method, kwargs, editor_text, got.requests) :
                 filtered_dict \in {filter_json_object(version, json_loads(got.text).value,
                                                       route, http_method, TRUE, got.mem)}})

pre_patch(version, route, http_method, kwargs, stdin, stdin_text, editor_text, server, mem, sent) ==
  IF stdin
  THEN TheOne({read_object_patch(got, version, route, http_method,
                                 ("filter_createonly" :> [bool |-> TRUE]) @@ kwargs,
                                 stdin_text) :
                 got \in {_get_object_as_text(version, route, http_method,
                            ("filter_createonly" :> [bool |-> TRUE]) @@ kwargs,
                            server, mem, sent)}})
  ELSE TheOne({edit_object_patch(got, version, route, http_method,
                                 ("filter_createonly" :> [bool |-> FALSE]) @@ kwargs,
                                 editor_text) :
                 got \in {_get_object_as_text(version, route, http_method,
                            ("filter_createonly" :> [bool |-> FALSE]) @@ kwargs,
                            server, mem, sent)}})

\* Mutation: no text from the editor is taken for the empty object.
_edit_example_empty_object(editor_text) ==
  IF editor_text = None \/ editor_text = Blank THEN Value(<<>>) ELSE json_loads(editor_text)

\* self._edit_example(): no text from the editor is the empty text
_edit_example(editor_text) ==
  IF editor_text = None THEN json_loads(Blank) ELSE json_loads(editor_text)

\* self._read_object()
_read_object(stdin_text) == json_loads(stdin_text)

post_object(raw, version, route, http_method, kwargs, mem, sent) ==
  IF raw.exc # "" THEN Done(reraise(raw.exc), kwargs, mem, sent)
  ELSE TheOne({store_body(version, route, http_method, kwargs, raw.value, filtered, sent) :
                 filtered \in {filter_json_object(version, raw.value, route, http_method,
                                                  FALSE, mem)}})

pre_post(version, route, http_method, kwargs, stdin, stdin_text, editor_text, mem, sent) ==
  post_object(IF stdin THEN _read_object(stdin_text) ELSE _edit_example(editor_text),
              version, route, http_method, kwargs, mem, sent)

pre(version, route, http_method, kwargs, import_data, stdin, stdin_text, editor_text, server, mem, sent) ==
  IF http_method \notin {"patch", "post"} THEN Done("", kwargs, mem, sent)
  ELSE IF import_data # <<>>
  THEN pre_import(version, route, http_method, kwargs, import_data, mem, sent)
  ELSE IF http_method = "patch"
  THEN pre_patch(version, route, http_method, kwargs, stdin, stdin_text, editor_text,
                 server, mem, sent)
  ELSE pre_post(version, route, http_method, kwargs, stdin, stdin_text, editor_text,
                mem, sent)

\* Action.run once pre has returned or raised
run_after_pre(done, version, route, http_method, dry_run) ==
  IF done.exc # "" THEN done
  ELSE Done("", done.kwargs, done.mem,
            send(version, route, http_method, done.kwargs, dry_run, done.requests))

run(version, route, http_method, dry_run, input, mem) ==
  TheOne({run_after_pre(done, version, route, http_method, dry_run) :
            done \in {pre(version, route, http_method, input.options @@ PathArgs(route),
                          input.import_data, input.stdin, input.stdin_text,
                          input.editor_text, input.server, mem, <<>>)}})

\* What the server answers to the GET of a route: the stored object.  The
\* server may know a type that the loaded document does not.
ServerObjects(route) ==
  IF route = "/targets/"
  THEN { "type" :> Scalar("Disk") @@ "id" :> Scalar("x") @@ "scope" :> Scalar("x"),
         "type" :> Scalar("Aws") @@ "name" :> Scalar("x"),
         "type" :> Scalar("Bogus") @@ "name" :> Scalar("x") }
  ELSE { "id" :> Scalar("x") @@ "name" :> Scalar("x") @@ "scope" :> Scalar("x")
         @@ "owner" :> [obj |-> ("id" :> Scalar("x") @@ "name" :> Scalar("x"))] }

\* The options of the command line that are neither path parameters nor the
\* body: none, one with a value, one with the empty value.
Options == {<<>>, "maxResults" :> Scalar("x"), "maxResults" :> Scalar("")}

\* The command line and the user of one invocation.
Input(import_data, stdin, stdin_text, editor_text, server, options) ==
  [import_data |-> import_data, stdin |-> stdin, stdin_text |-> stdin_text,
   editor_text |-> editor_text, server |-> server, options |-> options]

\* the names a body can be imported under
BodyNames(version, route, http_method) ==
  {get_body_type_params(version, route, http_method).name[i] :
     i \in 1..Len(get_body_type_params(version, route, http_method).name)}

RunInputs(version, route, http_method) ==
  IF http_method \in {"get", "delete"}
  THEN {Input(<<>>, FALSE, Blank, None, <<>>, options) : options \in Options}
  ELSE {Input(name :> object, FALSE, Blank, None, <<>>, options) :
          name \in BodyNames(version, route, http_method),
          object \in RunObjects, options \in Options}
       \cup {Input(<<>>, TRUE, text, None, server, options) :
               text \in Texts,
               server \in IF http_method = "patch" THEN ServerObjects(route) ELSE {<<>>},
               options \in Options}
       \cup {Input(<<>>, FALSE, Blank, text, server, options) :
               text \in EditorTexts,
               server \in IF http_method = "patch" THEN ServerObjects(route) ELSE {<<>>},
               options \in Options}

\* the operations the documents declare
Operations == {rm \in Routes \X Methods : Has(paths_v2[rm[1]], rm[2])}

BodyRoutes ==
  {rm \in Routes \X {"post", "patch"} : Has(paths_v2[rm[1]], rm[2])}

(***************************************************************************)
(* get_path_type_params and get_raw_params.  A list is kept with whether   *)
(* it is the list object of the loaded document (shared) or a new one:     *)
(* result.append(body_param) changes the document exactly when result is   *)
(* the document's own list.  get_raw_params gives its result together with *)
(* the document as the call leaves it.                                     *)
(***************************************************************************)
List(items, shared) == [items |-> items, shared |-> shared]

path_parameters(route) ==
  IF Has(raw_spec.paths[route], "parameters") THEN raw_spec.paths[route].parameters ELSE <<>>

\* Mutation: the list of the document itself is handed out.
get_path_type_params_v2_own_list(route) ==
  List(path_parameters(route), Has(raw_spec.paths[route], "parameters"))

\* params = [param for param in route_data.get('parameters', '')]
get_path_type_params_v2(route) == List(path_parameters(route), FALSE)

\* params = []; params.append(self.lookup(param['$ref'])) or params.append(param)
get_path_type_params_v3(route) ==
  List([i \in 1..Len(path_parameters(route)) |->
          IF Has(path_parameters(route)[i], "$ref")
          THEN lookup(path_parameters(route)[i]["$ref"], raw_spec)
          ELSE path_parameters(route)[i]],
       FALSE)

get_path_type_params(version, route) ==
  IF version = "v3" THEN get_path_type_params_v3(route) ELSE get_path_type_params_v2(route)

\* result.append(body_param), and what the document is afterwards
appended(result, body_param, route) ==
  IF InList(SchemaError, result.items)
  THEN [exc |-> "SchemaError", value |-> None, raw_spec |-> raw_spec]
  ELSE IF body_param = <<>>
  THEN [exc |-> "", value |-> result.items, raw_spec |-> raw_spec]
  ELSE [exc |-> "", value |-> Append(result.items, body_param),
        raw_spec |-> IF result.shared
                     THEN [raw_spec EXCEPT
                             !.paths[route].parameters = Append(result.items, body_param)]
                     ELSE raw_spec]

get_raw_params(version, route, http_method) ==
  appended(get_path_type_params(version, route),
           IF http_method \in {"get", "delete"}
           THEN get_body_type_params(version, route, http_method)
           ELSE <<>>,
           route)

\* Mutation: the filter empties the object it was given and fills it again.
caller_data_filtered_in_place(data, r) == IF r.exc = "" THEN r.filtered ELSE <<>>

\* filtered = {}: the result is built in a dict of its own and `data` is only
\* read (data.get, `in data`, data[p_key]); the caller's object after the call
caller_data(data, r) == data

(***************************************************************************)
(* State.  spec is the implementation class get_spec selected for the     *)
(* document the process loaded; _discriminators is the class attribute     *)
(* shared by every spec instance of the process; call is the operation in  *)
(* progress together with what it returned; requests are the HTTP requests *)
(* the invocation has handed to the transport.                             *)
(***************************************************************************)
Idle == [op |-> "idle"]

Mem == [disc |-> _discriminators, origin |-> origin, crossed |-> {}, depth |-> 0,
        deepest |-> 0]

\* threading.Thread: its state, the statement of _spinner.draw it is at and
\* the position of itertools.cycle
Thread(state, pc, n) == [state |-> state, pc |-> pc, cursor |-> n]

\* sys.stdout.write(text), by the main thread or by the spinner thread
Written(by, text) == [by |-> by, text |-> text]

\* No _spinner has been constructed.
NoSpinner ==
  /\ event = FALSE
  /\ thread = Thread("none", "", 1)
  /\ stdout = Written("", "")

Init ==
  /\ raw_spec \in RawSpecs
  /\ spec = get_spec(raw_spec)
  /\ _discriminators = <<>>
  /\ origin = <<>>
  /\ call = Idle
  /\ requests = <<>>
  /\ NoSpinner

\* The call has ended: the cache and the record of what it returned.
filter_json_object_ended(r, route, http_method, data, filter_createonly) ==
  /\ _discriminators' = r.mem.disc
  /\ origin' = r.mem.origin
  /\ call' = [op |-> "filter_json_object", version |-> spec,
              route |-> route, http_method |-> http_method, data |-> data,
              filter_createonly |-> filter_createonly,
              exc |-> r.exc, msg |-> r.msg, filtered |-> r.filtered,
              before |-> _discriminators, crossed |-> r.mem.crossed,
              deepest |-> r.mem.deepest,
              data_after |-> caller_data(data, r)]

FilterJsonObject ==
  /\ call = Idle
  /\ \E rm \in BodyRoutes, data \in JsonObjects, filter_createonly \in BOOLEAN :
       \E r \in {filter_json_object(spec, data, rm[1], rm[2], filter_createonly, Mem)} :
         filter_json_object_ended(r, rm[1], rm[2], data, filter_createonly)
  /\ UNCHANGED <<spec, raw_spec, requests, event, thread, stdout>>

resolved(op, r, route, http_method) ==
  call' = [op |-> op, version |-> spec, route |-> route, http_method |-> http_method,
           exc |-> r.exc, value |-> r.value]

ResultDescr ==
  /\ call = Idle
  /\ \E rm \in Operations :
       resolved("result_descr", result_descr(spec, rm[1], rm[2]), rm[1], rm[2])
  /\ UNCHANGED <<spec, raw_spec, _discriminators, origin, requests, event, thread, stdout>>

GetIterableObject ==
  /\ call = Idle
  /\ \E rm \in Operations :
       resolved("get_iterable_object", get_iterable_object(spec, rm[1], rm[2]),
                rm[1], rm[2])
  /\ UNCHANGED <<spec, raw_spec, _discriminators, origin, requests, event, thread, stdout>>

raw_params_got(r, route, http_method) ==
  /\ raw_spec' = r.raw_spec
  /\ call' = [op |-> "get_raw_params", version |-> spec, route |-> route,
              http_method |-> http_method, exc |-> r.exc, value |-> r.value]

GetRawParams ==
  /\ call = Idle
  /\ \E rm \in Operations :
       \E r \in {get_raw_params(spec, rm[1], rm[2])} : raw_params_got(r, rm[1], rm[2])
  /\ UNCHANGED <<spec, _discriminators, origin, requests, event, thread, stdout>>

columns_named(r, route, http_method, obj_type) ==
  call' = [op |-> "get_column_names", version |-> spec, route |-> route,
           http_method |-> http_method, obj_type |-> obj_type,
           exc |-> r.exc, value |-> r.value]

GetColumnNames ==
  /\ call = Idle
  /\ \E rm \in Operations, obj_type \in ObjTypes :
       \E r \in {get_column_names(spec, rm[1], rm[2], obj_type)} :
         columns_named(r, rm[1], rm[2], obj_type)
  /\ UNCHANGED <<spec, raw_spec, _discriminators, origin, requests, event, thread, stdout>>

\* `if self.dry_run:` what click.echo is given ('{} {} {} {}' of the method,
\* the uri, the payload and the data) and the dummy response returned
dry_run_of(version, route, http_method, kwargs) ==
  [echo |-> [http_method |-> http_method, uri |-> uri_format(route, kwargs),
             payload |-> payload_of(route, http_method, kwargs),
             data |-> data_of(version, route, http_method, kwargs)],
   response |-> json_dumps([data |-> <<>>, meta |-> <<>>])]

\* The invocation has ended: the cache, the requests the transport received
\* and the record of the invocation.
run_ended(r, route, http_method, dry_run, input) ==
  /\ _discriminators' = r.mem.disc
  /\ origin' = r.mem.origin
  /\ requests' = r.requests
  /\ call' = [op |-> "run", version |-> spec, route |-> route,
              http_method |-> http_method, dry_run |-> dry_run, input |-> input,
              exc |-> r.exc, kwargs |-> r.kwargs,
              dry |-> IF dry_run /\ r.exc = ""
                      THEN dry_run_of(spec, route, http_method, r.kwargs) ELSE None]

Run ==
  /\ call = Idle
  /\ \E rm \in Operations, dry_run \in BOOLEAN :
       \E input \in RunInputs(spec, rm[1], rm[2]) :
         \E r \in {run(spec, rm[1], rm[2], dry_run, input, Mem)} :
           run_ended(r, rm[1], rm[2], dry_run, input)
  /\ UNCHANGED <<spec, raw_spec, event, thread, stdout>>

Return ==
  /\ call # Idle
  /\ call' = Idle
  /\ requests' = <<>>
  /\ UNCHANGED <<spec, raw_spec, _discriminators, origin, event, thread, stdout>>

Next ==
  \/ FilterJsonObject
  \/ ResultDescr
  \/ GetIterableObject
  \/ GetColumnNames
  \/ GetRawParams
  \/ Run
  \/ Return

Spec == Init /\ [][Next]_vars

(***************************************************************************)
(* Action._format_errmsg, Action.get_response_type, Action._apply_arguments *)
(* and Action._format_response.  A response envelope is a dict whose       *)
(* `errors` and `warnings` are lists of dicts with plain strings, whose    *)
(* `data` is an object or a list of objects and whose `meta` is a dict.    *)
(***************************************************************************)
\* '%s' % num
str(num) == ToString(num)

\* Mutation: the index is written for a single error too.
err_line_always_indexed(error_data, num, length) ==
  "Error" \o (" " \o str(num) \o ":") \o " "
    \o (IF Has(error_data, "code") THEN error_data.code \o ":" ELSE "") \o " "
    \o (IF Has(error_data, "message") THEN error_data.message ELSE "")

\* 'Error%s %s %s' % (err_index, err_code, err_msg)
err_line(error_data, num, length) ==
  "Error" \o (IF length = 1 THEN ":" ELSE " " \o str(num) \o ":") \o " "
    \o (IF Has(error_data, "code") THEN error_data.code \o ":" ELSE "") \o " "
    \o (IF Has(error_data, "message") THEN error_data.message ELSE "")

\* the loop of _format_errmsg: messages.append(err_line); num += 1
RECURSIVE messages_of(_, _)
messages_of(errors, num) ==
  IF num > Len(errors) THEN <<>>
  ELSE <<err_line(errors[num], num, Len(errors))>> \o messages_of(errors, num + 1)

\* '\n'.join(messages)
RECURSIVE join(_, _)
join(messages, i) ==
  IF i > Len(messages) THEN ""
  ELSE IF i = Len(messages) THEN messages[i]
  ELSE messages[i] \o "\n" \o join(messages, i + 1)

_format_errmsg(errors) == join(messages_of(errors, 1), 1)

\* the type of the first object of the response
get_response_type(response_dict) ==
  IF ~Has(response_dict, "data") THEN Thrown("KeyError")
  ELSE IF Has(response_dict.data, "obj")
  THEN Value(Get(response_dict.data.obj, "type"))
  ELSE IF response_dict.data.list # <<>> /\ response_dict.data.list[1] # <<>>
  THEN Value(Get(response_dict.data.list[1], "type"))
  ELSE Value(None)

\* _apply_arguments, the options that decide the rendering: strip_metadata
\* is popped and sets self.strip_metadata (False since __init__); columns is
\* popped and split into self._table_columns.
_apply_arguments(kwargs) ==
  [kwargs |-> [k \in DOMAIN kwargs \ {"strip_metadata", "columns"} |-> kwargs[k]],
   strip_metadata |-> Has(kwargs, "strip_metadata") /\ kwargs.strip_metadata.bool,
   _table_columns |-> IF Has(kwargs, "columns") /\ Truthy(kwargs.columns)
                      THEN <<kwargs.columns.str>> ELSE <<>>]

Views == {"raw", "json", "xml", "tree", "table"}

\* a response text that is no JSON document
Garbage == [garbage |-> TRUE]

\* what _format_response did: the exception raised and its exit code, the
\* warnings handed to utils.warning, what click.echo was given, the parsed
\* response as the views got it, and the text returned
Formatted(exc, code, errmsg, warnings, echo, shown, text) ==
  [exc |-> exc, code |-> code, errmsg |-> errmsg, warnings |-> warnings, echo |-> echo,
   shown |-> shown, text |-> text]

Failed(exc, warnings, shown) == Formatted(exc, 0, "", warnings, <<>>, shown, None)

\* click.echo(view.build_...(...)): the view module is outside the
\* repository; a rendering is named by its kind and what it was given
Echoed(kind, content, warnings, shown) ==
  Formatted("", 0, "", warnings, <<[kind |-> kind, content |-> content]>>, shown, None)

\* the table views, once obj_type, columns and the iterable flag are known
table_shown(columns, iterable, response_json, warnings) ==
  IF columns.exc # "" THEN Failed(columns.exc, warnings, response_json)
  ELSE IF iterable.exc # "" THEN Failed(iterable.exc, warnings, response_json)
  ELSE Echoed(IF iterable.value THEN "vertical_table" ELSE "horizontal_table",
              [response_json |-> response_json, columns |-> columns.value],
              warnings, response_json)

table_of_type(obj_type, response_json, version, route, http_method, _table_columns, warnings) ==
  IF obj_type.exc # "" THEN Failed(obj_type.exc, warnings, response_json)
  ELSE table_shown(IF _table_columns # <<>> THEN Value(_table_columns)
                   ELSE get_column_names(version, route, http_method, obj_type.value),
                   get_iterable_object(version, route, http_method),
                   response_json, warnings)

\* `if hidden: pass  elif settings.view in ...`
rendered(response_json, response, view, hidden, version, route, http_method, _table_columns, warnings) ==
  IF hidden THEN Formatted("", 0, "", warnings, <<>>, response_json, None)
  ELSE IF view \in {"raw", "json"} THEN Echoed(view, response, warnings, response_json)
  ELSE IF view = "xml" THEN Echoed("xml", response_json, warnings, response_json)
  ELSE IF view = "tree"
  THEN Echoed("tree", json_dumps(Get(response_json, "data")), warnings, response_json)
  ELSE table_of_type(get_response_type(response_json), response_json, version, route,
                     http_method, _table_columns, warnings)

\* Mutation: the envelope is stripped for every method.
strips_any_method(response_json, strip_metadata, http_method, view) ==
  /\ strip_metadata
  /\ view \in {"raw", "json", "xml"}
  /\ Has(response_json, "data")

\* the condition of `response_json = response_json['data']` (SCALRCORE-10392)
strips(response_json, strip_metadata, http_method, view) ==
  /\ strip_metadata
  /\ http_method = "get"
  /\ view \in {"raw", "json", "xml"}
  /\ Has(response_json, "data")

stripped(response_json, response, strip_metadata, view, hidden, version, route, http_method, _table_columns, warnings) ==
  IF strips(response_json, strip_metadata, http_method, view)
  THEN rendered(response_json.data, json_dumps(response_json.data), view, hidden, version,
                route, http_method, _table_columns, warnings)
  ELSE rendered(response_json, response, view, hidden, version, route, http_method,
                _table_columns, warnings)

\* Mutation: the raw view shows a response that carries errors.
parsed_raw_shows_errors(response_json, response, strip_metadata, view, hidden, version, route, http_method, _table_columns) ==
  IF Get(response_json, "errors") # <<>> /\ view # "raw"
  THEN Formatted("MultipleClickException", 1, _format_errmsg(response_json.errors),
                 Get(response_json, "warnings"), <<>>, None, None)
  ELSE stripped(response_json, response, strip_metadata, view, hidden, version, route,
                http_method, _table_columns, Get(response_json, "warnings"))

\* from `errors = response_json.get('errors')` on
parsed(response_json, response, strip_metadata, view, hidden, version, route, http_method, _table_columns) ==
  IF Get(response_json, "errors") # <<>>
  THEN Formatted("MultipleClickException", 1, _format_errmsg(response_json.errors),
                 Get(response_json, "warnings"), <<>>, None, None)
  ELSE stripped(response_json, response, strip_metadata, view, hidden, version, route,
                http_method, _table_columns, Get(response_json, "warnings"))

\* the names of the keyword arguments with 'Id' in them, envId and accountId
\* apart, and those with 'Name' in them
IdParams == {"thingId", "volumeId"}

NameParams == {"thingName"}

\* `elif self.http_method.upper() == 'DELETE'`: delete_target is None
deleted_id(kwargs) ==
  IF DOMAIN kwargs \cap IdParams # {}
  THEN kwargs[CHOOSE k \in DOMAIN kwargs \cap IdParams : TRUE].str
  ELSE IF DOMAIN kwargs \cap NameParams # {}
  THEN kwargs[CHOOSE k \in DOMAIN kwargs \cap NameParams : TRUE].str
  ELSE ""

_format_response(response, hidden, kwargs, strip_metadata, view, version, route, http_method, _table_columns) ==
  IF response # None /\ response # Blank
  THEN IF json_loads(response).exc # "" THEN Failed(reraise("Invalid server response"), <<>>, None)
       ELSE parsed(json_loads(response).value, response, strip_metadata, view, hidden,
                   version, route, http_method, _table_columns)
  ELSE IF http_method = "delete"
  THEN Formatted("", 0, "", <<>>, <<>>, None, "Deleted " \o deleted_id(kwargs))
  ELSE Formatted("", 0, "", <<>>, <<>>, None, None)

(***************************************************************************)
(* The responses of the server and the options of the command line.        *)
(***************************************************************************)
MaxErrors == 3

ErrorEntries ==
  {code @@ message : code \in {<<>>} \cup {"code" :> c : c \in {"E1", "E2"}},
                     message \in {<<>>} \cup {"message" :> m : m \in {"bad", "worse"}}}

RECURSIVE ErrorLists(_)
ErrorLists(length) ==
  IF length = 0 THEN {<<>>}
  ELSE {Append(errors, entry) : errors \in ErrorLists(length - 1), entry \in ErrorEntries}

ErrorArrays == UNION {ErrorLists(length) : length \in 1..MaxErrors}

ResponseErrors ==
  { <<>>, "errors" :> <<>>, "errors" :> <<[code |-> "E1", message |-> "bad"]>>,
    "errors" :> <<[code |-> "E1", message |-> "bad"], [message |-> "worse"]>> }

ResponseWarnings == { <<>>, "warnings" :> <<[code |-> "W1", message |-> "old"]>> }

ResponseData ==
  { <<>>,
    "data" :> [obj |-> ("type" :> Scalar("Disk") @@ "id" :> Scalar("x"))],
    "data" :> [obj |-> ("id" :> Scalar("x"))],
    "data" :> [list |-> <<>>],
    "data" :> [list |-> <<("type" :> Scalar("Aws") @@ "name" :> Scalar("x"))>>] }

Envelopes ==
  {errors @@ warnings @@ data @@ "meta" :> [page |-> 1] :
     errors \in ResponseErrors, warnings \in ResponseWarnings, data \in ResponseData}

Responses == {None, Blank, Garbage} \cup {json_dumps(envelope) : envelope \in Envelopes}

\* the options --strip-metadata and --columns of a command line
FormatOptions(view) ==
  {strip_metadata @@ columns :
     strip_metadata \in {<<>>, "strip_metadata" :> [bool |-> TRUE],
                         "strip_metadata" :> [bool |-> FALSE]},
     columns \in IF view = "table" THEN {<<>>, "columns" :> Scalar("id")} ELSE {<<>>}}

(***************************************************************************)
(* The rendering of a response: _format_errmsg on an errors array and      *)
(* _format_response on a response of the server.                           *)
(***************************************************************************)
FormatErrmsg ==
  /\ call = Idle
  /\ \E errors \in ErrorArrays :
       call' = [op |-> "_format_errmsg", errors |-> errors, value |-> _format_errmsg(errors)]
  /\ UNCHANGED <<spec, raw_spec, _discriminators, origin, requests, event, thread, stdout>>

format_response_ended(r, route, http_method, response, view, hidden, kwargs) ==
  /\ call' = [op |-> "_format_response", version |-> spec, route |-> route,
              http_method |-> http_method, response |-> response, view |-> view,
              hidden |-> hidden, kwargs |-> kwargs, exc |-> r.exc, code |-> r.code,
              errmsg |-> r.errmsg, warnings |-> r.warnings, echo |-> r.echo,
              shown |-> r.shown, text |-> r.text]
  /\ UNCHANGED <<spec, raw_spec, _discriminators, origin, requests, event, thread, stdout>>

FormatResponse ==
  /\ call = Idle
  /\ \E rm \in Operations, response \in Responses, view \in Views, hidden \in BOOLEAN :
       \E kwargs \in FormatOptions(view) :
         \E applied \in {_apply_arguments(kwargs @@ PathArgs(rm[1]))} :
           \E r \in {_format_response(response, hidden, applied.kwargs,
                                      applied.strip_metadata, view, spec, rm[1], rm[2],
                                      applied._table_columns)} :
             format_response_ended(r, rm[1], rm[2], response, view, hidden, kwargs)

NextOutput ==
  \/ FormatErrmsg
  \/ FormatResponse
  \/ Return

SpecOutput == Init /\ [][NextOutput]_vars


(***************************************************************************)
(* Vocabulary of the properties.                                           *)
(***************************************************************************)
IsFilter == call.op = "filter_json_object"

Succeeded == call.exc = ""

BodySchema(version, route, http_method) ==
  IF version = "v3" THEN _get_schema_v3(route, http_method)
  ELSE _get_schema_v2(route, http_method)

Discriminated(node) == Has(node, "discriminator")

DiscKey(version, node) ==
  IF version = "v3" THEN node.discriminator.propertyName ELSE node.discriminator

TypeRef(version, name) == IF version = "v3" THEN RefV3(name) ELSE RefV2(name)

\* The schema node a reference stands for (allOf flattened in v3).
Resolve(version, ref) ==
  LET node == lookup(ref, RawSpec(version))
  IN  IF version = "v3" /\ Has(node, "allOf") THEN merge_all(node, raw_spec_v3) ELSE node

PropValue(items, k) == items[CHOOSE i \in 1..Len(items) : items[i][1] = k][2]

PropertyNames(node) == IF Has(node, "properties") THEN Keys(node.properties) ELSE {}

ReadOnlyNames(node) ==
  {k \in PropertyNames(node) :
     LET pv == PropValue(node.properties, k) IN Has(pv, "readOnly") /\ pv.readOnly}

CreateOnlyNames(node) ==
  IF Has(node, "x-createOnly")
  THEN {node["x-createOnly"][i] : i \in 1..Len(node["x-createOnly"])}
  ELSE {}

\* The keys of o a filter against node must let through.
Survivors(o, node, filter_createonly) ==
  {k \in DOMAIN o : /\ k \in PropertyNames(node)
                    /\ k \notin ReadOnlyNames(node)
                    /\ ~(filter_createonly /\ k \in CreateOnlyNames(node))}

PlainCopy(o, node, filter_createonly) ==
  [k \in Survivors(o, node, filter_createonly) |-> o[k]]

IsRefProperty(node, k) == Has(PropValue(node.properties, k), "$ref")

RefOf(node, k) == PropValue(node.properties, k)["$ref"]

\* The concrete types a discriminated schema admits, as a set of names.
ConcreteNames(version, node) ==
  LET names == list_concrete_types(node, RawSpec(version))
  IN  {names[i] : i \in 1..Len(names)}

TopPath == <<"None", "type">>

(***************************************************************************)
(* C2: for a schema S without discriminator and filter_createonly = False, *)
(* filter_json_object returns exactly the keys of the object that are      *)
(* properties of S and not readOnly; each value is copied unchanged,       *)
(* except that a dict under a $ref-typed property is replaced by its       *)
(* filter against the referenced schema; unknown keys are dropped without  *)
(* an error; in the v2 and in the v3 implementation.                       *)
(***************************************************************************)
C2_FilterKeepsExactlyWritableKnownKeys ==
  IsFilter =>
    LET S    == BodySchema(call.version, call.route, call.http_method)
        keep == Survivors(call.data, S, FALSE)
    IN  (~Discriminated(S) /\ ~call.filter_createonly) =>
          /\ Succeeded
          /\ DOMAIN call.filtered = keep
          /\ \A k \in keep :
               IF IsRefProperty(S, k) /\ IsDict(call.data[k])
               THEN call.filtered[k] =
                      [obj |-> PlainCopy(call.data[k].obj,
                                         Resolve(call.version, RefOf(S, k)), FALSE)]
               ELSE call.filtered[k] = call.data[k]

C2_Witness ==
  /\ IsFilter
  /\ ~Discriminated(BodySchema(call.version, call.route, call.http_method))
  /\ ~call.filter_createonly
  /\ call.version = "v3"
  /\ DOMAIN call.data = {"id", "type", "owner"}
  /\ IsDict(call.data.owner)
  /\ DOMAIN call.data.owner.obj = {"id", "name"}
  /\ call.filtered = ("owner" :> [obj |-> ("name" :> Scalar("x"))])

(***************************************************************************)
(* The schema that governs one level of an object: the schema itself, or   *)
(* for a discriminated schema the concrete type its discriminator value    *)
(* names.  Governed is false when the object names no admissible type.     *)
(***************************************************************************)
Governed(version, node, o) ==
  Discriminated(node) =>
    /\ Has(o, DiscKey(version, node))
    /\ Has(o[DiscKey(version, node)], "str")
    /\ o[DiscKey(version, node)].str \in ConcreteNames(version, node)

Governing(version, node, o) ==
  IF Discriminated(node)
  THEN Resolve(version, TypeRef(version, o[DiscKey(version, node)].str))
  ELSE node

LevelConforms(o, node) ==
  \A k \in DOMAIN o : /\ k \in PropertyNames(node)
                      /\ k \notin ReadOnlyNames(node)
                      /\ k \notin CreateOnlyNames(node)

RECURSIVE Conforms(_, _, _)
Conforms(version, node, o) ==
  /\ Governed(version, node, o)
  /\ LET G == Governing(version, node, o)
     IN  /\ LevelConforms(o, G)
         /\ \A k \in DOMAIN o :
              (IsRefProperty(G, k) /\ IsDict(o[k])) =>
                 Conforms(version, Resolve(version, RefOf(G, k)), o[k].obj)

(***************************************************************************)
(* C3: round trip.  An object that already conforms to the schema (every   *)
(* key, at every level reached through $ref-typed properties, is a         *)
(* property of the governing schema and neither read-only nor create-only) *)
(* is returned unchanged, with filter_createonly false and true alike.     *)
(***************************************************************************)
C3_RoundTrip ==
  IsFilter =>
    (Conforms(call.version, BodySchema(call.version, call.route, call.http_method), call.data)
       => (Succeeded /\ call.filtered = call.data))

\* The same round trip outside the v3 discriminator branch.
C3_RoundTripElsewhere ==
  (IsFilter /\ ~(call.version = "v3"
                 /\ Discriminated(BodySchema(call.version, call.route, call.http_method))))
    => C3_RoundTrip

\* The concrete type the call resolved a discriminated schema to, read off
\* the cache entry the call leaves behind.
GoverningUsed(version, node, o, reference) ==
  IF Discriminated(node)
  THEN Resolve(version,
               TypeRef(version,
                       _discriminators[str_format(reference)
                                         \o <<DiscKey(version, node)>>].str))
  ELSE node

(***************************************************************************)
(* C4: with filter_createonly = True no key of the result, at any level    *)
(* reached through $ref-typed properties, is in the x-createOnly list of   *)
(* the schema governing that level; with filter_createonly = False the     *)
(* create-only properties present in the data and not read-only are kept.  *)
(***************************************************************************)
CreateOnlyLevel(filter_createonly, o, result, G) ==
  IF filter_createonly
  THEN DOMAIN result \cap CreateOnlyNames(G) = {}
  ELSE \A k \in (CreateOnlyNames(G) \cap DOMAIN o) :
         (k \in PropertyNames(G) /\ k \notin ReadOnlyNames(G)) => Has(result, k)

IsDiscFilter ==
  IsFilter /\ Discriminated(BodySchema(call.version, call.route, call.http_method))

TopKey == DiscKey(call.version, BodySchema(call.version, call.route, call.http_method))

TopTypes == ConcreteNames(call.version, BodySchema(call.version, call.route, call.http_method))

TopResolved == Succeeded \/ call.msg.at # TopPath

UsedIs(v) ==
  IF TopResolved THEN _discriminators[TopPath] = v
  ELSE (call.msg.kind \in {"invalid", "lookup"} => call.msg.value = v)

FailedMissing ==
  /\ call.exc = "ClickException"
  /\ call.msg.kind = "missing"
  /\ call.msg.param = TopKey
  /\ call.msg.at = TopPath
  /\ call.filtered = None

C6_InvalidValueIsValidationError ==
  (IsDiscFilter /\ Truthy(Get(call.data, TopKey))
     /\ call.data[TopKey].str \notin TopTypes)
    => /\ call.exc = "ClickException"
       /\ call.msg.kind = "invalid"
       /\ call.msg.param = TopKey
       /\ _discriminators = call.before

(***************************************************************************)
(* C7: a discriminator value that is among list_concrete_types(S),         *)
(* computed on the discriminated schema S, is accepted, and the data is    *)
(* filtered against the properties of the concrete type it names; in the   *)
(* v2 and in the v3 implementation.                                        *)
(***************************************************************************)
C7_ValidValueSelectsConcreteType ==
  (IsDiscFilter /\ Truthy(Get(call.data, TopKey))
     /\ call.data[TopKey].str \in TopTypes)
    => /\ TopResolved
       /\ Succeeded =>
            DOMAIN call.filtered =
              Survivors(call.data,
                        Resolve(call.version, TypeRef(call.version, call.data[TopKey].str)),
                        call.filter_createonly)

(***************************************************************************)
(* C8: a cache entry is only ever consulted for the schema reference under *)
(* which it was stored: no call takes a missing discriminator from an      *)
(* entry that was stored while filtering an object of another schema.      *)
(***************************************************************************)
C8_CacheEntryServesOnlyItsSchema ==
  IsFilter => call.crossed = {}

(***************************************************************************)
(* C9, C10: the response schema of an operation.                           *)
(***************************************************************************)
IsResultDescr == call.op = "result_descr"

IsIterableCall == call.op = "get_iterable_object"

OwnResponses == RawSpec(call.version).paths[call.route][call.http_method].responses

HasOwnResponse == Has(OwnResponses, SUCCESS_CODES[call.http_method])

\* The entry under the method's own success code, a reference to a shared
\* response followed.
OwnResponse ==
  LET entry == OwnResponses[SUCCESS_CODES[call.http_method]]
  IN  IF Has(entry, "$ref") THEN lookup(entry["$ref"], RawSpec(call.version)) ELSE entry

\* Where each document layout keeps the schema of a response.
SchemaHolder ==
  IF call.version = "v2" THEN OwnResponse
  ELSE IF Has(OwnResponse, "content") /\ Has(OwnResponse.content, "application/json")
  THEN OwnResponse.content["application/json"]
  ELSE None

HasOwnSchema ==
  HasOwnResponse /\ Has(SchemaHolder, "schema") /\ Has(SchemaHolder.schema, "$ref")

OwnSchema == lookup(SchemaHolder.schema["$ref"], RawSpec(call.version))

OwnDataIsArray ==
  /\ Has(OwnSchema, "properties")
  /\ "data" \in Keys(OwnSchema.properties)
  /\ is_array(ItemOf(OwnSchema.properties, "data"))

\* C9: get_iterable_object(route, method) returns true iff the schema of
\* the method's own success-status response has a `data` property of type
\* 'array', and false when the method has no success-status response or no
\* schema.
C9_IterableIffOwnResponseDataIsArray ==
  IsIterableCall =>
    /\ call.exc = ""
    /\ call.value = (HasOwnSchema /\ OwnDataIsArray)

\* The v2 implementation answers as C9 says.
C9_IterableV2 ==
  (IsIterableCall /\ call.version = "v2") =>
    /\ call.exc = ""
    /\ call.value = (HasOwnSchema /\ OwnDataIsArray)

\* C10: result_descr resolves the schema from the response keyed by the
\* method's fixed success code, and yields no schema, without failing, when
\* the route declares no response under that code or the response carries
\* no schema reference.
C10_DescrFromSuccessCodeOrAbsent ==
  IsResultDescr =>
    /\ call.exc = ""
    /\ HasOwnSchema => call.value = OwnSchema
    /\ ~HasOwnSchema => call.value = None

\* The v2 implementation answers as C10 says.
C10_DescrV2 ==
  (IsResultDescr /\ call.version = "v2") =>
    /\ call.exc = ""
    /\ HasOwnSchema => call.value = OwnSchema
    /\ ~HasOwnSchema => call.value = None

\* A call C10 is about: a route without a response under the success code.
C10_AbsentCase == IsResultDescr /\ ~HasOwnResponse

(***************************************************************************)
(* C1: the body of a PATCH request.                                        *)
(***************************************************************************)
IsRun == call.op = "run"

IsPatchRun == IsRun /\ call.http_method = "patch"

\* The JSON bodies of the PATCH requests the invocation handed over.
PatchBodies ==
  {requests[i].data.json :
     i \in {j \in 1..Len(requests) : requests[j].http_method = "patch"}}

Immutable(body) ==
  LET G == GoverningUsed(call.version,
                         BodySchema(call.version, call.route, call.http_method),
                         body, None)
  IN  DOMAIN body \cap (ReadOnlyNames(G) \cup CreateOnlyNames(G))

\* C1: for every PATCH invocation of Action.run, however the body is
\* obtained in pre (import-data, --stdin, editor), the JSON body handed to
\* the transport contains no property the body schema marks readOnly and no
\* property of its x-createOnly list.
C1_PatchBodyHasNoImmutableProperty ==
  IsPatchRun => \A body \in PatchBodies : Immutable(body) = {}

\* The same for the bodies that come from import-data.
C1_PatchBodyFromImportData ==
  (IsPatchRun /\ call.input.import_data # <<>>) =>
    \A body \in PatchBodies : Immutable(body) = {}

(***************************************************************************)
(* C14: where Action.run puts each keyword argument.  The request of the   *)
(* invocation is the last one handed to the transport; the requests before *)
(* it are those of the nested GET.                                         *)
(***************************************************************************)
RunSent == IsRun /\ call.exc = "" /\ ~call.dry_run

OwnRequest == Last(requests)

PathNames == Placeholders[call.route]

OtherNames == DOMAIN call.kwargs \ PathNames

\* a value Python takes for true: not '', not {}, not False
NonEmpty(value) == value \notin {Scalar(""), [obj |-> <<>>], [bool |-> FALSE]}

ExpectedBodyNames ==
  LET names == Get(get_body_type_params(call.version, call.route, call.http_method), "name")
  IN  {names[i] : i \in 1..Len(names)}

\* the values merged into the body: those of the expected body names
MergedNames == {k \in OtherNames \cap ExpectedBodyNames : NonEmpty(call.kwargs[k])}

PathInUriOnly ==
  /\ \A k \in PathNames : OwnRequest.uri.args[k] = call.kwargs[k].str
  /\ DOMAIN OwnRequest.uri.args = PathNames
  /\ PathNames \cap DOMAIN OwnRequest.payload = {}
  /\ PathNames \cap MergedNames = {}

BodyFromExpectedNamesOnly ==
  IF MergedNames = {} THEN OwnRequest.data = json_dumps(<<>>)
  ELSE \E k \in MergedNames : OwnRequest.data = json_dumps(call.kwargs[k].obj)

RoutedByMethod(names) ==
  IF call.http_method \in {"get", "delete"}
  THEN /\ DOMAIN OwnRequest.payload = names
       /\ \A k \in names : OwnRequest.payload[k] = call.kwargs[k]
       /\ OwnRequest.data = json_dumps(<<>>)
  ELSE /\ OwnRequest.payload = <<>>
       /\ BodyFromExpectedNamesOnly

\* C14 as stated: every supplied parameter that is a placeholder of the
\* request template is substituted into the URI and appears neither in the
\* query bag nor in the body; every other parameter goes, for GET/DELETE, to
\* the query bag with the body empty, and for POST/PATCH into the body only
\* if its name is an expected body-parameter name, with the query bag empty.
C14_EveryOtherParameterRouted ==
  RunSent => PathInUriOnly /\ RoutedByMethod(OtherNames)

\* C14 amended: the same, for every other parameter whose value is not
\* empty; a parameter with an empty value ('', {}, False) is dropped, it
\* reaches neither the query bag nor the body.
C14_NonEmptyParameterRouted ==
  RunSent =>
    PathInUriOnly /\ RoutedByMethod({k \in OtherNames : NonEmpty(call.kwargs[k])})

\* a GET on a templated route with a query option has been sent
C14_Witness ==
  /\ RunSent
  /\ call.http_method = "get"
  /\ PathNames # {}
  /\ "maxResults" \in DOMAIN OwnRequest.payload

(***************************************************************************)
(* C15: a POST or PATCH without a body.                                    *)
(***************************************************************************)
IsBodyRun == IsRun /\ call.http_method \in {"post", "patch"}

\* no import-data, and the standard input is empty, or the editor gave an
\* empty buffer or no text
NoBodyObtained ==
  /\ call.input.import_data = <<>>
  /\ IF call.input.stdin THEN call.input.stdin_text = Blank
     ELSE call.input.editor_text \in {None, Blank}

OwnMethodSent == \E i \in 1..Len(requests) : requests[i].http_method = call.http_method

HasBodyEntry == \E k \in DOMAIN call.kwargs : Has(call.kwargs[k], "obj")

\* C15: for a POST or PATCH with no pre-supplied body, when no body can be
\* obtained (empty standard input, empty editor buffer, no editor text) the
\* invocation fails with an error and the POST/PATCH request never reaches
\* the transport; and pre never returns normally without a body entry in
\* its keyword arguments.
C15_NoBodyNoRequest ==
  /\ (IsBodyRun /\ NoBodyObtained) => (call.exc # "" /\ ~OwnMethodSent)
  /\ (IsBodyRun /\ call.exc = "") => HasBodyEntry

\* a POST whose editor returned no text has failed, nothing was sent
C15_Witness ==
  /\ IsBodyRun
  /\ call.http_method = "post"
  /\ ~call.dry_run
  /\ NoBodyObtained
  /\ call.input.editor_text = None
  /\ call.exc = "ValueError"
  /\ requests = <<>>

\* a PATCH whose standard input is empty has failed after the nested GET
C15_WitnessEmptyStdin ==
  /\ IsBodyRun
  /\ call.http_method = "patch"
  /\ ~call.dry_run
  /\ call.input.stdin
  /\ NoBodyObtained
  /\ call.exc = "ValueError"
  /\ Len(requests) = 1

(***************************************************************************)
(* C16: the key the body is stored under.                                  *)
(***************************************************************************)
BodyKeys == {k \in DOMAIN call.kwargs : Has(call.kwargs[k], "obj")}

BodyParamNames == Get(get_body_type_params(call.version, call.route, call.http_method), "name")

\* the JSON object the caller supplied for this request: the imported
\* definition, the standard input, or what the editor returned
SuppliedObject ==
  IF call.input.import_data # <<>>
  THEN call.input.import_data[CHOOSE name \in DOMAIN call.input.import_data : TRUE]
  ELSE IF call.input.stdin THEN call.input.stdin_text.json
  ELSE call.input.editor_text.json

OwnBodySchema == BodySchema(call.version, call.route, call.http_method)

PreReturned == IsBodyRun /\ call.exc = ""

C16_WitnessSingleName ==
  /\ PreReturned
  /\ Len(BodyParamNames) = 1
  /\ Discriminated(OwnBodySchema)
  /\ BodyKeys = {BodyParamNames[1]}

\* With several names and a discriminator, pre gets to the choice of the
\* key only for a POST with import-data: in every other flow the object goes
\* through filter_json_object first, which fails for it.
MultiNameKeyOnlyFromImportedPost ==
  (PreReturned /\ Len(BodyParamNames) > 1) =>
    (call.http_method = "post" /\ call.input.import_data # <<>>)

(***************************************************************************)
(* C17, C18, C19: the rendering of a response.                             *)
(***************************************************************************)
IsFormat == call.op = "_format_response"

\* the response is a JSON document: the envelope
Parsed == Has(call.response, "json")

Envelope == call.response.json

HasErrors == Parsed /\ Has(Envelope, "errors") /\ Envelope.errors # <<>>

IsErrmsg == call.op = "_format_errmsg"

\* every entry carries a code and a message
Complete(errors) ==
  \A i \in 1..Len(errors) : Has(errors[i], "code") /\ Has(errors[i], "message")

Decimal == <<"1", "2", "3", "4", "5", "6", "7", "8", "9">>

ExpectedLine(errors, i) ==
  IF Len(errors) = 1 THEN "Error: " \o errors[i].code \o ": " \o errors[i].message
  ELSE "Error " \o Decimal[i] \o ": " \o errors[i].code \o ": " \o errors[i].message

\* the lines from the i-th on, one per entry, in the order of the array
RECURSIVE ExpectedLines(_, _)
ExpectedLines(errors, i) ==
  IF i = Len(errors) THEN ExpectedLine(errors, i)
  ELSE ExpectedLine(errors, i) \o "\n" \o ExpectedLines(errors, i + 1)

\* C18: for an errors array of n >= 1 entries _format_errmsg composes
\* exactly n lines joined by newlines, in the order of the array; line i is
\* 'Error <i>: <code>: <message>' with i counted from 1 when n > 1, and
\* 'Error: <code>: <message>' without the index exactly when n = 1; one
\* entry with code E1 and message bad gives 'Error: E1: bad'.
C18_OneLinePerErrorIndexedUnlessSingle ==
  (IsErrmsg /\ Complete(call.errors)) =>
    /\ call.value = ExpectedLines(call.errors, 1)
    /\ call.errors = <<[code |-> "E1", message |-> "bad"]>> => call.value = "Error: E1: bad"

\* two entries give two indexed lines
C18_Witness ==
  /\ IsErrmsg
  /\ call.errors = <<[code |-> "E1", message |-> "bad"], [code |-> "E2", message |-> "worse"]>>
  /\ call.value = "Error 1: E1: bad\nError 2: E2: worse"

\* the single entry of the example
C18_WitnessSingle ==
  /\ IsErrmsg
  /\ call.errors = <<[code |-> "E1", message |-> "bad"]>>
  /\ call.value = "Error: E1: bad"

\* the rendering stage was reached
Rendering == IsFormat /\ Parsed /\ ~HasErrors

StripRequested == Has(call.kwargs, "strip_metadata") /\ call.kwargs.strip_metadata.bool

StripCase ==
  /\ StripRequested
  /\ call.http_method = "get"
  /\ call.view \in {"raw", "json", "xml"}
  /\ Has(Envelope, "data")

\* what click.echo is given when the views are handed the document
EchoOf(document) ==
  IF call.view \in {"raw", "json"} THEN call.echo[1].content = json_dumps(document)
  ELSE IF call.view = "xml" THEN call.echo[1].content = document
  ELSE IF call.view = "tree" THEN call.echo[1].content = json_dumps(Get(document, "data"))
  ELSE call.echo[1].content.response_json = document

RenderedFrom(document) ==
  /\ call.shown = document
  /\ call.echo # <<>> => EchoOf(document)

\* C19: the response is replaced by its data field before rendering if and
\* only if strip-envelope was requested, the method is GET, the view is one
\* of raw, json, xml and the response has a data field; in every other
\* combination what is rendered is the full, unmodified envelope.
C19_StrippedIffGetAndPlainViewAndData ==
  Rendering => IF StripCase THEN RenderedFrom(Envelope.data) ELSE RenderedFrom(Envelope)

\* a GET response stripped to its data in the json view
C19_Witness ==
  /\ Rendering
  /\ StripCase
  /\ call.view = "json"
  /\ call.echo = <<[kind |-> "json", content |-> json_dumps(Envelope.data)]>>

\* strip-metadata asked for a PATCH: the envelope is shown whole
C19_WitnessNotGet ==
  /\ Rendering
  /\ StripRequested
  /\ call.http_method = "patch"
  /\ call.view = "json"
  /\ call.echo = <<[kind |-> "json", content |-> call.response]>>

(***************************************************************************)
(* C11, C12: column names.  The response object is the schema the `data`   *)
(* property of the response schema stands for: its $ref, the $ref of its   *)
(* items, or the oneOf branch obj_type names.                              *)
(***************************************************************************)
IsColumns == call.op = "get_column_names"

HasData == HasOwnSchema /\ "data" \in PropertyNames(OwnSchema)

\* where the reference of the object is kept: on `data` or on its items
DataHolder ==
  LET data == PropValue(OwnSchema.properties, "data")
  IN  IF Has(data, "items") THEN data.items ELSE data

NamedBranches ==
  {i \in 1..Len(DataHolder.oneOf) :
     /\ Has(DataHolder.oneOf[i], "$ref")
     /\ call.obj_type # None
     /\ Last(DataHolder.oneOf[i]["$ref"]) = call.obj_type.str}

BackedByOneOf == HasData /\ Has(DataHolder, "oneOf")

HasObject ==
  /\ HasData
  /\ \/ Has(DataHolder, "$ref")
     \/ Has(DataHolder, "oneOf") /\ NamedBranches # {}

ResponseObject ==
  Resolve(call.version,
          IF Has(DataHolder, "$ref") THEN DataHolder["$ref"]
          ELSE DataHolder.oneOf[CHOOSE i \in NamedBranches : TRUE]["$ref"])

IdOnly(node) ==
  /\ PropertyNames(node) = {"id"}
  /\ Len(node.properties) = 1
  /\ Has(PropValue(node.properties, "id"), "type")
  /\ PropValue(node.properties, "id").type \in {"integer", "string"}

ExpectedColumns ==
  {k : k \in {n \in PropertyNames(ResponseObject) : ~IsRefProperty(ResponseObject, n)}}
  \cup {k \o ".id" : k \in {n \in PropertyNames(ResponseObject) :
                               /\ IsRefProperty(ResponseObject, n)
                               /\ IdOnly(Resolve(call.version, RefOf(ResponseObject, n)))}}

\* C11: get_column_names returns, for the resolved response object schema,
\* one column per property: the name of a property without $ref, '<prop>.id'
\* for a $ref to an object whose only property is `id` of type integer or
\* string, nothing for a $ref to any other object, and no other name; in
\* the v2 and in the v3 implementation.
C11_ColumnPerPlainOrIdProperty ==
  (IsColumns /\ HasObject) =>
    /\ call.exc = ""
    /\ {call.value[i] : i \in 1..Len(call.value)} = ExpectedColumns
    /\ Len(call.value) = Cardinality(ExpectedColumns)

C11_Witness ==
  /\ IsColumns
  /\ HasObject
  /\ call.version = "v3"
  /\ call.route = "/things/{thingId}/"
  /\ call.http_method = "get"
  /\ call.value = <<"id", "name", "scope", "env.id">>

\* C12: in the v3 implementation, whenever the response `data` schema is
\* backed by a oneOf (on `data` or on `data.items`) and obj_type is absent
\* or names no oneOf branch, get_column_names returns the empty list rather
\* than failing.
C12_UnnamedOneOfGivesNoColumns ==
  (IsColumns /\ call.version = "v3" /\ BackedByOneOf /\ NamedBranches = {}) =>
    /\ call.exc = ""
    /\ call.value = <<>>

\* The same where the oneOf is on `data.items`.
C12_UnnamedOneOfOnItems ==
  (/\ IsColumns
   /\ call.version = "v3"
   /\ BackedByOneOf
   /\ NamedBranches = {}
   /\ Has(PropValue(OwnSchema.properties, "data"), "items")) =>
    /\ call.exc = ""
    /\ call.value = <<>>

(***************************************************************************)
(* list_concrete_types over a family of documents: every acyclic           *)
(* x-concreteTypes graph over MaxTypes types, in both document layouts.    *)
(* A type may only name types that come later in TypeNames, which makes    *)
(* the graph acyclic; edges[n] is the set of types n names.                *)
(***************************************************************************)
MaxTypes == 4

TypeNames == <<"A", "B", "C", "D", "E", "F">>

TypeIndex == 1..MaxTypes

EdgeSets == {edges \in [TypeIndex -> SUBSET TypeIndex] :
               \A n \in TypeIndex : \A m \in edges[n] : m > n}

\* the x-concreteTypes list of a type: its targets in document order
RECURSIVE concrete_links(_, _, _)
concrete_links(version, targets, i) ==
  IF i > MaxTypes THEN <<>>
  ELSE IF i \in targets
  THEN <<Link(TypeRef(version, TypeNames[i]))>> \o concrete_links(version, targets, i + 1)
  ELSE concrete_links(version, targets, i + 1)

type_schema(version, targets) ==
  IF targets = {} THEN [properties |-> << <<"type", Str>> >>]
  ELSE ( "properties" :> << <<"type", Str>> >>
      @@ "x-concreteTypes" :> concrete_links(version, targets, 1) )

RECURSIVE type_schemas(_, _, _)
type_schemas(version, edges, i) ==
  IF i > MaxTypes THEN <<>>
  ELSE (TypeNames[i] :> type_schema(version, edges[i])) @@ type_schemas(version, edges, i + 1)

types_document(version, edges) ==
  IF version = "v3" THEN [components |-> [schemas |-> type_schemas(version, edges, 1)]]
  ELSE [definitions |-> type_schemas(version, edges, 1)]

Loaded(edges) == [op |-> "loaded", edges |-> edges]

InitTypes ==
  /\ spec \in Versions
  /\ _discriminators = <<>>
  /\ origin = <<>>
  /\ requests = <<>>
  /\ NoSpinner
  /\ call \in {Loaded(edges) : edges \in EdgeSets}
  /\ raw_spec = types_document(spec, call.edges)

ListConcreteTypes ==
  /\ call.op = "loaded"
  /\ \E n \in TypeIndex :
       call' = [op |-> "list_concrete_types", edges |-> call.edges, type |-> n,
                value |-> list_concrete_types(lookup(TypeRef(spec, TypeNames[n]), raw_spec),
                                              raw_spec)]
  /\ UNCHANGED <<spec, raw_spec, _discriminators, origin, requests, event, thread, stdout>>

NextTypes == ListConcreteTypes

SpecTypes == InitTypes /\ [][NextTypes]_vars

(***************************************************************************)
(* C13: for a schema declaring x-concreteTypes in an acyclic graph,        *)
(* list_concrete_types returns exactly the short names of the leaf types   *)
(* reachable through x-concreteTypes references (the reachable types that  *)
(* declare no x-concreteTypes), no intermediate type name; for a schema    *)
(* without x-concreteTypes it returns the empty list.                      *)
(***************************************************************************)
IsListTypes == call.op = "list_concrete_types"

\* the types reachable from the types in `from` in at most k steps
RECURSIVE ReachableWithin(_, _)
ReachableWithin(from, k) ==
  IF k = 0 THEN from
  ELSE LET near == ReachableWithin(from, k - 1)
       IN  near \cup UNION {call.edges[m] : m \in near}

Reachable == ReachableWithin(call.edges[call.type], MaxTypes)

Leaves == {m \in Reachable : call.edges[m] = {}}

C13_ExactlyTheReachableLeaves ==
  IsListTypes =>
    /\ {call.value[i] : i \in 1..Len(call.value)} = {TypeNames[m] : m \in Leaves}
    /\ call.edges[call.type] = {} => call.value = <<>>

C13_Witness ==
  /\ IsListTypes
  /\ call.type = 1
  /\ call.edges[1] = {2, 4}
  /\ call.edges[2] = {3}
  /\ call.edges[3] = {}
  /\ call.edges[4] = {}
  /\ call.value = <<"C", "D">>

(***************************************************************************)
(* scalrctl/examples.py: DEFAULTS, _item_by_ref and _generate_params.      *)
(* A generated value is a string, a boolean, a number, a list or an        *)
(* object.                                                                 *)
(***************************************************************************)
DEFAULTS ==
  "string" :> [str |-> ""] @@ "boolean" :> [bool |-> TRUE] @@ "integer" :> [int |-> 1]
    @@ "number" :> [int |-> 1] @@ "array" :> [list |-> <<>>]

\* the definition named by the last segment of the reference
_item_by_ref(spec_data, ref) ==
  IF Has(spec_data, "components") /\ Has(spec_data.components, "schemas")
  THEN spec_data.components.schemas[Last(ref)]
  ELSE spec_data.definitions[Last(ref)]

\* Mutation: the type default, enumerated or not.
param_value_type_default(p_value) == DEFAULTS[p_value.type]

\* p_value['enum'][0] or DEFAULTS[p_value['type']]
param_value(p_value) ==
  IF Has(p_value, "enum") THEN p_value.enum[1] ELSE DEFAULTS[p_value.type]

\* schema.get('properties', {}), of the merged schema when it has allOf
properties_of(spec_data, schema) ==
  IF Has(schema, "allOf") THEN Get(merge_all(schema, spec_data), "properties")
  ELSE Get(schema, "properties")

RECURSIVE _generate_params(_, _)
RECURSIVE params_of(_, _, _, _)
\* `for p_key, p_value in properties.items()`
params_of(spec_data, properties, i, params) ==
  IF i > Len(properties) THEN params
  ELSE IF Has(properties[i][2], "readOnly") /\ properties[i][2].readOnly
  THEN params_of(spec_data, properties, i + 1, params)
  ELSE IF Has(properties[i][2], "$ref")
  THEN params_of(spec_data, properties, i + 1,
                 (properties[i][1] :>
                    [obj |-> _generate_params(spec_data,
                                              _item_by_ref(spec_data, properties[i][2]["$ref"]))])
                   @@ params)
  ELSE params_of(spec_data, properties, i + 1,
                 (properties[i][1] :> param_value(properties[i][2])) @@ params)

\* _generate_params keeps no record of the schemas it has been at.  A chain
\* of `$ref` properties that are not read-only, longer than the number of
\* schemas of the document (and the schema given), has come back to a
\* schema on it, and the recursion goes on until the interpreter gives up.
\* the properties _generate_params goes through for a schema
generated_properties(spec_data, schema) ==
  properties_of(spec_data, IF Has(schema, "$ref") THEN _item_by_ref(spec_data, schema["$ref"])
                           ELSE schema)

RECURSIVE generation_exceeded(_, _, _)
generation_exceeded(spec_data, schema, left) ==
  \/ left = 0
  \/ \E i \in 1..Len(generated_properties(spec_data, schema)) :
       \E p_value \in {generated_properties(spec_data, schema)[i][2]} :
         /\ ~(Has(p_value, "readOnly") /\ p_value.readOnly)
         /\ Has(p_value, "$ref")
         /\ generation_exceeded(spec_data, _item_by_ref(spec_data, p_value["$ref"]), left - 1)

_generate_params_exceeded(spec_data, schema) ==
  generation_exceeded(spec_data, schema, Cardinality(DOMAIN Schemas(spec_data)) + 1)

_generate_params(spec_data, schema) ==
  IF Has(schema, "$ref")
  THEN params_of(spec_data, properties_of(spec_data, _item_by_ref(spec_data, schema["$ref"])),
                 1, <<>>)
  ELSE params_of(spec_data, properties_of(spec_data, schema), 1, <<>>)

(***************************************************************************)
(* The schemas examples are generated for: up to MaxExampleKeys properties *)
(* of every kind, given inline, by reference, and as the last branch of an *)
(* allOf over a base schema that declares one of the keys as well.         *)
(***************************************************************************)
MaxExampleKeys == 3

ExampleKeys == <<"size", "tag", "sub", "extra", "more">>

PropertyKinds ==
  { [type |-> "string"], [type |-> "string", readOnly |-> TRUE],
    [type |-> "string", readOnly |-> FALSE], [type |-> "boolean"], [type |-> "integer"],
    [type |-> "number"], [type |-> "array"],
    [type |-> "string", enum |-> <<[str |-> "x"], [str |-> "y"]>>],
    "$ref" :> <<"#", "x", "Sub">>,
    "$ref" :> <<"#", "x", "Sub">> @@ "readOnly" :> TRUE }

\* the item lists over the first n keys, each key absent or of one kind
RECURSIVE PropertyLists(_)
PropertyLists(n) ==
  IF n = 0 THEN {<<>>}
  ELSE LET shorter == PropertyLists(n - 1)
       IN  shorter \cup {Append(properties, <<ExampleKeys[n], kind>>) :
                           properties \in shorter, kind \in PropertyKinds}

example_schemas(properties) ==
  [ Top  |-> [properties |-> properties],
    Sub  |-> [properties |-> << <<"id", [type |-> "string", readOnly |-> TRUE]>>,
                                <<"name", [type |-> "string"]>>,
                                <<"kind", [type |-> "string",
                                           enum |-> <<[str |-> "a"], [str |-> "b"]>>]>>,
                                <<"leaf", "$ref" :> <<"#", "x", "Leaf">>>> >>],
    Leaf |-> [allOf |-> << "$ref" :> <<"#", "x", "Base">>,
                           [properties |-> << <<"n", [type |-> "number"]>> >>] >>],
    Base |-> [properties |-> << <<"base", [type |-> "boolean"]>>,
                                <<"size", [type |-> "array"]>> >>],
    Back |-> [properties |-> << <<"label", [type |-> "string"]>>,
                                <<"top", "$ref" :> <<"#", "x", "Top">>>> >>],
    Composite |-> [allOf |-> << "$ref" :> <<"#", "x", "Base">>,
                                [properties |-> properties] >>] ]

\* merge_all follows the references of the branches in full, so the
\* references of a document are written for its layout
RECURSIVE relinked(_, _)
relinked(version, node) ==
  IF Has(node, "$ref")
  THEN [k \in DOMAIN node |-> IF k = "$ref" THEN TypeRef(version, Last(node[k])) ELSE node[k]]
  ELSE IF Has(node, "allOf")
  THEN [allOf |-> [i \in 1..Len(node.allOf) |-> relinked(version, node.allOf[i])]]
  ELSE IF Has(node, "properties")
  THEN [properties |-> [i \in 1..Len(node.properties) |->
                          <<node.properties[i][1], relinked(version, node.properties[i][2])>>]]
  ELSE node

example_document(version, properties) ==
  IF version = "v3"
  THEN [components |-> [schemas |-> [name \in DOMAIN example_schemas(properties) |->
                                       relinked(version, example_schemas(properties)[name])]]]
  ELSE [definitions |-> [name \in DOMAIN example_schemas(properties) |->
                           relinked(version, example_schemas(properties)[name])]]

\* the ways a schema is handed to _generate_params
SchemaForms == {"inline", "ref", "allOf", "ref allOf"}

schema_given(version, form, properties) ==
  IF form = "inline" THEN relinked(version, [properties |-> properties])
  ELSE IF form = "ref" THEN "$ref" :> TypeRef(version, "Top")
  ELSE IF form = "allOf" THEN relinked(version, example_schemas(properties).Composite)
  ELSE "$ref" :> TypeRef(version, "Composite")

InitExamples ==
  /\ spec \in Versions
  /\ _discriminators = <<>>
  /\ origin = <<>>
  /\ requests = <<>>
  /\ NoSpinner
  /\ call \in {[op |-> "loaded", properties |-> properties] :
                 properties \in PropertyLists(MaxExampleKeys)}
  /\ raw_spec = example_document(spec, call.properties)

GenerateParams ==
  /\ call.op = "loaded"
  /\ \E form \in SchemaForms :
       call' = [op |-> "_generate_params", properties |-> call.properties, form |-> form,
                schema |-> schema_given(spec, form, call.properties),
                exc |-> IF _generate_params_exceeded(raw_spec,
                                                     schema_given(spec, form, call.properties))
                        THEN "RecursionError" ELSE "",
                value |-> IF _generate_params_exceeded(raw_spec,
                                                       schema_given(spec, form,
                                                                    call.properties))
                          THEN None
                          ELSE _generate_params(raw_spec,
                                                schema_given(spec, form, call.properties))]
  /\ UNCHANGED <<spec, raw_spec, _discriminators, origin, requests, event, thread, stdout>>

NextExamples == GenerateParams

SpecExamples == InitExamples /\ [][NextExamples]_vars

(***************************************************************************)
(* C20: what _generate_params returns.                                     *)
(***************************************************************************)
IsExample == call.op = "_generate_params"

SchemaNamed(name) ==
  IF spec = "v3" THEN raw_spec.components.schemas[name] ELSE raw_spec.definitions[name]

\* the properties of a schema, its $ref resolved and its allOf merged: the
\* union of the properties of the branches, a later branch shadowing
RECURSIVE PropertiesOf(_)
PropertiesOf(node) ==
  IF Has(node, "$ref") THEN PropertiesOf(SchemaNamed(Last(node["$ref"])))
  ELSE IF Has(node, "allOf")
  THEN LET branch(i) == PropertiesOf(node.allOf[i])
           winner(k) == CHOOSE i \in 1..Len(node.allOf) :
                          /\ k \in DOMAIN branch(i)
                          /\ \A j \in (i + 1)..Len(node.allOf) : k \notin DOMAIN branch(j)
       IN  [k \in UNION {DOMAIN branch(i) : i \in 1..Len(node.allOf)} |-> branch(winner(k))[k]]
  ELSE IF Has(node, "properties")
  THEN [k \in Keys(node.properties) |-> PropValue(node.properties, k)]
  ELSE <<>>

IsReadOnly(property) == Has(property, "readOnly") /\ property.readOnly

TypeDefault(type) ==
  IF type = "string" THEN [str |-> ""]
  ELSE IF type = "boolean" THEN [bool |-> TRUE]
  ELSE IF type \in {"integer", "number"} THEN [int |-> 1]
  ELSE [list |-> <<>>]

RECURSIVE ExpectedExample(_)
ExpectedExample(node) ==
  LET properties == PropertiesOf(node)
  IN  [k \in {p \in DOMAIN properties : ~IsReadOnly(properties[p])} |->
         IF Has(properties[k], "$ref")
         THEN [obj |-> ExpectedExample(SchemaNamed(Last(properties[k]["$ref"])))]
         ELSE IF Has(properties[k], "enum") THEN properties[k].enum[1]
         ELSE TypeDefault(properties[k].type)]

\* C20: _generate_params returns an object whose keys are exactly the
\* properties of the schema that are not read-only, its $ref resolved and
\* its allOf merged; a key maps to the first enum value of its property when
\* that declares an enum, else to the default of the type ('' string, true
\* boolean, 1 integer and number, [] array), and a $ref property maps to the
\* object generated for the referenced schema; so {size: integer, tag:
\* string enum [x, y]} gives {size: 1, tag: 'x'}.
C20_ExampleOfNonReadOnlyProperties ==
  IsExample =>
    /\ call.value = ExpectedExample(call.schema)
    /\ call.properties = << <<"size", [type |-> "integer"]>>,
                            <<"tag", [type |-> "string",
                                      enum |-> <<[str |-> "x"], [str |-> "y"]>>]>> >>
         /\ call.form \in {"inline", "ref"}
       => call.value = [size |-> [int |-> 1], tag |-> [str |-> "x"]]

\* the schema of the example, given inline
C20_Witness ==
  /\ IsExample
  /\ call.form = "inline"
  /\ call.properties = << <<"size", [type |-> "integer"]>>,
                          <<"tag", [type |-> "string",
                                    enum |-> <<[str |-> "x"], [str |-> "y"]>>]>> >>
  /\ call.value = [size |-> [int |-> 1], tag |-> [str |-> "x"]]

\* a read-only property is left out and a referenced schema is generated
\* in its place, through an allOf
C20_WitnessNested ==
  /\ IsExample
  /\ call.form = "ref allOf"
  /\ call.properties = << <<"size", [type |-> "string", readOnly |-> TRUE]>>,
                          <<"sub", "$ref" :> <<"#", "x", "Sub">>>> >>
  /\ call.value = [base |-> [bool |-> TRUE],
                   sub |-> [obj |-> [name |-> [str |-> ""], kind |-> [str |-> "a"],
                                     leaf |-> [obj |-> [base |-> [bool |-> TRUE],
                                                        size |-> [list |-> <<>>],
                                                        n |-> [int |-> 1]]]]]]


(***************************************************************************)
(* The progress spinner.  _spinner (update.py) is a context manager around *)
(* a threading.Event and a daemon Thread that runs _spinner.draw.  It is   *)
(* used by update(), around _update_spec, and by                           *)
(* PolledAction._wait_for_status, around the polling loop.  The main       *)
(* thread and the spinner thread take their steps in any order; call holds *)
(* the position of the main thread (pc) and its locals.                    *)
(***************************************************************************)
\* itertools.cycle('|/-\\')
cursor == <<"|", "/", "-", "\\">>

\* Mutation: __exit__ waits for the thread before it sets the event.
__exit__join_first == <<"thread.join", "event.set">>

\* Mutation: __exit__ sets the event and does not wait for the thread.
__exit__without_join == <<"event.set">>

\* _spinner.__exit__: its statements, in order
__exit__ == <<"event.set", "thread.join">>

\* utils._spinner, the context manager _wait_for_status uses
utils__spinner__exit__ == __exit__

exit_of(op) == IF op = "update" THEN __exit__ ELSE utils__spinner__exit__

\* defaults.API_LEVELS
API_LEVELS == <<"user", "account", "global">>

\* What _update_spec gives: (True, None), (False, reason), or the SystemExit
\* of sys.exit() in _fetch_yaml_spec, which `except Exception` lets through.
UpdateOutcomes ==
  {[success |-> TRUE, exc |-> ""], [success |-> FALSE, exc |-> ""],
   [success |-> FALSE, exc |-> "SystemExit"]}

MaxAttempts == 3

Statuses == {"pending", "running", "failed"}

\* states_to_wait_for, as the set of its members
StatesToWaitFor == {{"running", "failed"}, {"running"}, {}}

\* timeout, the seconds between attempts
Timeouts == {1, 2}

\* What action_obj.run gives: the text of a response with a status, of a
\* response without one, a text that is no JSON, or an exception.
PollResponses ==
  {json_dumps([data |-> [status |-> status]]) : status \in Statuses}
    \cup {json_dumps([data |-> <<>>]), Garbage, [raise |-> "ClickException"]}

\* run_args = {"hide_output": ..., "envId": ...}; run_args.update(poll_dict)
run_args_of(poll_dict, hide_output, kwargs) ==
  poll_dict @@ ("hide_output" :> hide_output) @@ ("envId" :> Get(kwargs, "envId"))

\* data_json["data"]["status"]
_get_operation_status(data_json) ==
  IF Has(data_json, "data") /\ Has(data_json.data, "status")
  THEN Value(data_json.data.status)
  ELSE Thrown("KeyError")

\* data = action_obj.run(**run_args); json.loads(data); the status of it
attempt(response) ==
  IF Has(response, "raise") THEN Thrown(response.raise)
  ELSE IF json_loads(response).exc # "" THEN Thrown(json_loads(response).exc)
  ELSE _get_operation_status(json_loads(response).value)

\* Mutation: the loop goes on only while no status has been reported.
loop_continues_until_any_status(status, states_to_wait_for) == status = ""

\* while status not in states_to_wait_for
loop_continues(status, states_to_wait_for) == status \notin states_to_wait_for

UpdateCall == [op |-> "update", pc |-> "for", index |-> 0, success |-> FALSE, exc |-> "", at |-> 1]

WaitCall(states_to_wait_for, timeout) ==
  [op |-> "_wait_for_status", pc |-> "with", states_to_wait_for |-> states_to_wait_for,
   timeout |-> timeout, status |-> "", responses |-> <<>>, slept |-> <<>>, exc |-> "",
   at |-> 1]

InitSpinner ==
  /\ raw_spec \in RawSpecs
  /\ spec = get_spec(raw_spec)
  /\ _discriminators = <<>>
  /\ origin = <<>>
  /\ requests = <<>>
  /\ NoSpinner
  /\ call \in {UpdateCall} \cup {WaitCall(states, timeout) :
                                   states \in StatesToWaitFor, timeout \in Timeouts}

IsSpinnerUse == call.op \in {"update", "_wait_for_status"}

\* for index, api_level in enumerate(defaults.API_LEVELS, 1): click.echo(...)
UpdateFor ==
  /\ call.op = "update" /\ call.pc = "for"
  /\ IF call.index < Len(API_LEVELS)
     THEN /\ call' = [call EXCEPT !.index = call.index + 1, !.pc = "with"]
          /\ stdout' = Written("main", "Updating specifications for "
                                         \o API_LEVELS[call.index + 1] \o " API ... ")
     ELSE /\ call' = [call EXCEPT !.pc = "returned"]
          /\ UNCHANGED stdout
  /\ UNCHANGED <<spec, raw_spec, _discriminators, origin, requests, event, thread>>

\* _spinner(): self.event = threading.Event(); self.thread = threading.Thread(...)
SpinnerInit ==
  /\ IsSpinnerUse /\ call.pc = "with"
  /\ event' = FALSE
  /\ thread' = Thread("initial", "isSet", 1)
  /\ call' = [call EXCEPT !.pc = "__enter__", !.at = 1]
  /\ UNCHANGED <<spec, raw_spec, _discriminators, origin, requests, stdout>>

\* __enter__: self.thread.start()
SpinnerEnter ==
  /\ IsSpinnerUse /\ call.pc = "__enter__"
  /\ thread' = [thread EXCEPT !.state = "started"]
  /\ call' = [call EXCEPT !.pc = IF call.op = "update" THEN "_update_spec" ELSE "while"]
  /\ UNCHANGED <<spec, raw_spec, _discriminators, origin, requests, event, stdout>>

\* success, fail_reason = _update_spec(api_level)
UpdateSpec ==
  /\ call.op = "update" /\ call.pc = "_update_spec"
  /\ \E outcome \in UpdateOutcomes :
       call' = [call EXCEPT !.success = outcome.success, !.exc = outcome.exc,
                            !.pc = "__exit__"]
  /\ UNCHANGED <<spec, raw_spec, _discriminators, origin, requests, event, thread, stdout>>

\* while status not in states_to_wait_for
WaitWhile ==
  /\ call.op = "_wait_for_status" /\ call.pc = "while"
  /\ call' = [call EXCEPT !.pc = IF loop_continues(call.status, call.states_to_wait_for)
                                 THEN "run" ELSE "__exit__"]
  /\ UNCHANGED <<spec, raw_spec, _discriminators, origin, requests, event, thread, stdout>>

\* responses keeps what every attempt gave, in order
waited(r) ==
  call' = IF r.exc # ""
          THEN [call EXCEPT !.responses = Append(@, r), !.exc = r.exc, !.pc = "__exit__"]
          ELSE [call EXCEPT !.responses = Append(@, r), !.status = r.value, !.pc = "sleep"]

\* data = action_obj.run(**run_args) ... status = self._get_operation_status(data_json)
WaitRun ==
  /\ call.op = "_wait_for_status" /\ call.pc = "run"
  /\ Len(requests) < MaxAttempts
  /\ requests' = Append(requests, run_args_of("serverId" :> Scalar("7"), TRUE, <<>>))
  /\ \E response \in PollResponses : waited(attempt(response))
  /\ UNCHANGED <<spec, raw_spec, _discriminators, origin, event, thread, stdout>>

\* time.sleep(timeout)
WaitSleep ==
  /\ call.op = "_wait_for_status" /\ call.pc = "sleep"
  /\ call' = [call EXCEPT !.slept = Append(call.slept, call.timeout), !.pc = "while"]
  /\ UNCHANGED <<spec, raw_spec, _discriminators, origin, requests, event, thread, stdout>>

\* __exit__, one statement: self.event.set(), or self.thread.join(), which
\* returns once the thread has ended
SpinnerExit ==
  /\ IsSpinnerUse /\ call.pc = "__exit__"
  /\ call.at <= Len(exit_of(call.op))
  /\ IF exit_of(call.op)[call.at] = "event.set"
     THEN event' = TRUE
     ELSE thread.state # "started" /\ UNCHANGED event
  /\ call' = [call EXCEPT !.at = call.at + 1]
  /\ UNCHANGED <<spec, raw_spec, _discriminators, origin, requests, thread, stdout>>

\* __exit__ returns None: control leaves the with block, an exception of the
\* block goes on
SpinnerLeft ==
  /\ IsSpinnerUse /\ call.pc = "__exit__"
  /\ call.at > Len(exit_of(call.op))
  /\ call' = [call EXCEPT !.pc = "left"]
  /\ UNCHANGED <<spec, raw_spec, _discriminators, origin, requests, event, thread, stdout>>

\* if success: click.secho('Done') else: click.secho('Failed: ...')
UpdateReport ==
  /\ call.op = "update" /\ call.pc = "left"
  /\ IF call.exc # ""
     THEN call' = [call EXCEPT !.pc = "raised"] /\ UNCHANGED stdout
     ELSE /\ call' = [call EXCEPT !.pc = "for"]
          /\ stdout' = Written("main", IF call.success THEN "Done" ELSE "Failed: ")
  /\ UNCHANGED <<spec, raw_spec, _discriminators, origin, requests, event, thread>>

\* return status
WaitReturn ==
  /\ call.op = "_wait_for_status" /\ call.pc = "left"
  /\ call' = [call EXCEPT !.pc = IF call.exc # "" THEN "raised" ELSE "returned"]
  /\ UNCHANGED <<spec, raw_spec, _discriminators, origin, requests, event, thread, stdout>>

MainThread ==
  \/ UpdateFor
  \/ SpinnerInit
  \/ SpinnerEnter
  \/ UpdateSpec
  \/ WaitWhile
  \/ WaitRun
  \/ WaitSleep
  \/ SpinnerExit
  \/ SpinnerLeft
  \/ UpdateReport
  \/ WaitReturn

\* while not event.isSet()
DrawIsSet ==
  /\ thread.state = "started" /\ thread.pc = "isSet"
  /\ thread' = [thread EXCEPT !.pc = IF event THEN "blank" ELSE "write"]
  /\ UNCHANGED <<spec, raw_spec, _discriminators, origin, call, requests, event, stdout>>

\* sys.stdout.write(next(cursor)); sys.stdout.flush()
DrawWrite ==
  /\ thread.state = "started" /\ thread.pc = "write"
  /\ stdout' = Written("spinner", cursor[thread.cursor])
  /\ thread' = [thread EXCEPT !.pc = "sleep", !.cursor = (thread.cursor % Len(cursor)) + 1]
  /\ UNCHANGED <<spec, raw_spec, _discriminators, origin, call, requests, event>>

\* time.sleep(0.1)
DrawSleep ==
  /\ thread.state = "started" /\ thread.pc = "sleep"
  /\ thread' = [thread EXCEPT !.pc = "erase"]
  /\ UNCHANGED <<spec, raw_spec, _discriminators, origin, call, requests, event, stdout>>

\* sys.stdout.write('\b')
DrawErase ==
  /\ thread.state = "started" /\ thread.pc = "erase"
  /\ stdout' = Written("spinner", "\\b")
  /\ thread' = [thread EXCEPT !.pc = "isSet"]
  /\ UNCHANGED <<spec, raw_spec, _discriminators, origin, call, requests, event>>

\* sys.stdout.write(' '); sys.stdout.flush(); draw returns and the thread ends
DrawBlank ==
  /\ thread.state = "started" /\ thread.pc = "blank"
  /\ stdout' = Written("spinner", " ")
  /\ thread' = [thread EXCEPT !.state = "stopped", !.pc = ""]
  /\ UNCHANGED <<spec, raw_spec, _discriminators, origin, call, requests, event>>

draw ==
  \/ DrawIsSet
  \/ DrawWrite
  \/ DrawSleep
  \/ DrawErase
  \/ DrawBlank

NextSpinner ==
  \/ UpdateFor
  \/ SpinnerInit
  \/ SpinnerEnter
  \/ UpdateSpec
  \/ WaitWhile
  \/ WaitRun
  \/ WaitSleep
  \/ SpinnerExit
  \/ SpinnerLeft
  \/ UpdateReport
  \/ WaitReturn
  \/ DrawIsSet
  \/ DrawWrite
  \/ DrawSleep
  \/ DrawErase
  \/ DrawBlank

\* The scheduler runs every thread that can take a step: the main thread,
\* whose calls return, and the spinner thread.
SpecSpinner ==
  InitSpinner /\ [][NextSpinner]_vars /\ WF_vars(MainThread) /\ WF_vars(draw)

(***************************************************************************)
(* C21: the spinner is stopped and joined before control leaves the with   *)
(* block.                                                                  *)
(***************************************************************************)
InsideWith ==
  call.pc \in {"__enter__", "_update_spec", "while", "run", "sleep", "__exit__"}

\* control has left the with block of the _spinner that event and thread
\* belong to, normally or with an exception
AfterWith == IsSpinnerUse /\ thread.state # "none" /\ ~InsideWith

Joined == event /\ thread.state = "stopped"

\* C21: at every use of _spinner (update and _wait_for_status), whether the
\* block ended normally or raised, once control has left the with block the
\* stop event is set and the spinner thread has ended, and from then on the
\* spinner thread writes nothing to stdout.
C21_JoinedBeforeLeaving ==
  /\ [](AfterWith => Joined)
  /\ [][AfterWith => (stdout' = stdout \/ stdout'.by = "main")]_vars

\* _wait_for_status has let an exception of the polled action through, and
\* the spinner, which had drawn, is stopped
C21_Witness ==
  /\ call.op = "_wait_for_status"
  /\ call.pc = "raised"
  /\ call.exc = "ClickException"
  /\ Joined
  /\ stdout = Written("spinner", " ")

\* update has reported the second level after a spinner that was stopped
C21_WitnessUpdate ==
  /\ call.op = "update"
  /\ call.pc = "for"
  /\ call.index = 2
  /\ Joined
  /\ stdout = Written("main", "Done")

(***************************************************************************)
(* C22: the polling loop of _wait_for_status.                              *)
(***************************************************************************)
IsWait == call.op = "_wait_for_status"

\* the attempt gave a status the caller waits for
Terminal(r) == r.exc = "" /\ r.value \in call.states_to_wait_for

TerminalSeen == \E i \in 1..Len(call.responses) : Terminal(call.responses[i])

\* every attempt so far was a request followed, unless it raised, by one
\* sleep of `timeout` seconds
RequestThenSleep ==
  /\ Len(requests) = Len(call.responses)
  /\ \A i \in 1..Len(call.slept) : call.slept[i] = call.timeout
  /\ Len(call.slept) <= Len(call.responses)
  /\ Len(call.responses) <= Len(call.slept) + 1
  /\ call.pc = "while" => Len(call.slept) = Len(call.responses)

\* what is returned is the status of the last response, the first one that
\* is in states_to_wait_for
ReturnsFirstTerminal ==
  /\ call.status \in call.states_to_wait_for
  /\ call.responses # <<>>
  /\ Last(call.responses) = Value(call.status)
  /\ \A i \in 1..Len(call.responses) - 1 : ~Terminal(call.responses[i])

\* C22: _wait_for_status returns only a status that is in states_to_wait_for,
\* the one of the first response that reports such a status; the attempts
\* are a request followed by a sleep of the same `timeout`; after a response
\* whose status is not in states_to_wait_for the loop goes on to a further
\* request, and after the first response whose status is in it no request is
\* issued; so without such a response the loop does not return.
C22_ReturnsOnlyAWaitedStatus ==
  /\ [](IsWait => RequestThenSleep)
  /\ [](IsWait /\ call.pc = "returned" => ReturnsFirstTerminal)
  /\ [][IsWait /\ TerminalSeen => requests' = requests]_vars
  /\ [][IsWait /\ call.pc = "while" /\ ~TerminalSeen /\ call' # call
          => call'.pc = "run"]_vars

\* the third attempt reported a waited status after two that did not
C22_Witness ==
  /\ IsWait
  /\ call.pc = "returned"
  /\ call.status = "failed"
  /\ call.states_to_wait_for = {"running", "failed"}
  /\ Len(requests) = 3
  /\ call.slept = <<2, 2, 2>>

(***************************************************************************)
(* C30: the polling loop ends once a waited status or an error has come,   *)
(* and the spinner with it.                                                *)
(***************************************************************************)
WaitEnded == IsWait /\ call.pc \in {"returned", "raised"}

\* C30: once the polled action has given a response whose status is in
\* states_to_wait_for, or an attempt has failed, _wait_for_status eventually
\* ends, returning that status or letting the error through, with the
\* spinner thread stopped and joined; control is never past the loop while
\* the spinner thread still runs.
C30_PollingEndsAndSpinnerStops ==
  /\ (IsWait /\ TerminalSeen)
       ~> (IsWait /\ call.pc = "returned" /\ Terminal(Last(call.responses)) /\ Joined)
  /\ (IsWait /\ call.exc # "") ~> (IsWait /\ call.pc = "raised" /\ Joined)
  /\ [](IsWait /\ call.pc \in {"left", "returned", "raised"} => thread.state = "stopped")

\* the second attempt reported the waited status and the call has returned
C30_Witness ==
  /\ WaitEnded
  /\ call.pc = "returned"
  /\ Len(call.responses) = 2
  /\ TerminalSeen
  /\ Joined

\* the first attempt got a response without a status and the call has raised
C30_WitnessError ==
  /\ WaitEnded
  /\ call.pc = "raised"
  /\ call.exc = "KeyError"
  /\ Joined

(***************************************************************************)
(* C23: a schema reference that cannot be resolved, and the requests of    *)
(* the invocation.                                                         *)
(***************************************************************************)
SchemaFailure == IsRun /\ call.exc = "SchemaError"

\* C23: whenever an invocation fails because a schema reference cannot be
\* resolved, in the lookup of the body schema or in the filtering of the
\* body, no HTTP request of that invocation has been issued; for every
\* method and every way of supplying the body.
C23_SchemaFailureBeforeAnyRequest == SchemaFailure => requests = <<>>

\* Where the invocation issues no GET of its own before it filters, the
\* failure does come before any request: every flow but the PATCH that
\* fetches the object (standard input or editor).
C23_SchemaFailureBeforeAnyRequestUnlessFetched ==
  SchemaFailure /\ ~(call.http_method = "patch" /\ call.input.import_data = <<>>)
    => requests = <<>>

\* the imported object names a type without a schema: failed, nothing sent
C23_FailureOfImportSendsNothing ==
  /\ SchemaFailure
  /\ call.input.import_data # <<>>
  /\ ~call.dry_run
  /\ requests = <<>>

(***************************************************************************)
(* C24: the resolver and the filter leave the loaded document and the      *)
(* caller's object as they were.                                           *)
(***************************************************************************)
\* C24: no operation of the resolver or of the filter (filter_json_object,
\* get_raw_params with get_body_type_params and get_path_type_params,
\* get_column_names, list_concrete_types, get_iterable_object, result_descr),
\* failing calls included, changes the loaded raw specification, and after
\* filter_json_object the object the caller passed is what it was.
C24_SpecAndDataUnchanged ==
  /\ [][raw_spec' = raw_spec]_vars
  /\ [](IsFilter => call.data_after = call.data)

\* get_raw_params has appended the parameter of a GET to the path parameters
C24_Witness ==
  /\ call.op = "get_raw_params"
  /\ call.http_method = "get"
  /\ call.exc = ""
  /\ Len(call.value) = 2
  /\ call.value[2].name = <<"maxResults">>
  /\ raw_spec \in RawSpecs

\* a filter call that failed on the discriminator left the object alone
C24_WitnessFailedFilter ==
  /\ IsFilter
  /\ call.exc # ""
  /\ Has(call.data, "type")
  /\ call.data_after = call.data

(***************************************************************************)
(* C25: what the discriminator cache holds.                                *)
(***************************************************************************)
\* the entry under path names one of the concrete types of the schema it
\* was stored for
PassedCheck(path) ==
  /\ Has(_discriminators[path], "str")
  /\ _discriminators[path].str \in ConcreteNames(spec, Resolve(spec, origin[path]))

FailedOnDiscriminator ==
  /\ IsFilter
  /\ call.exc = "ClickException"
  /\ call.msg.kind \in {"missing", "invalid"}

\* the body schema of the call is discriminated and the object names a type
TopTypeGiven ==
  /\ IsFilter
  /\ Discriminated(BodySchema(call.version, call.route, call.http_method))
  /\ Truthy(Get(call.data, DiscKey(call.version,
                                   BodySchema(call.version, call.route, call.http_method))))

\* C25: after any sequence of filter_json_object calls, successful or failing,
\* v2 or v3, every value in the cache is one that was among the concrete types
\* of the schema it was stored for; a call that fails on a missing or invalid
\* discriminator leaves the entry of that level as it was; and a successful
\* call whose object names the type leaves that value in the entry, whatever
\* the entry held before.
C25_CacheHoldsCheckedValues ==
  /\ \A path \in DOMAIN _discriminators : PassedCheck(path)
  /\ FailedOnDiscriminator
       => Get(_discriminators, call.msg.at) = Get(call.before, call.msg.at)
  /\ TopTypeGiven /\ Succeeded
       => /\ Has(_discriminators, TopPath)
          /\ _discriminators[TopPath] = call.data["type"]

\* a successful call replaced the entry an earlier call had stored
C25_Witness ==
  /\ TopTypeGiven
  /\ Succeeded
  /\ Has(call.before, TopPath)
  /\ call.before[TopPath] # _discriminators[TopPath]
  /\ PassedCheck(TopPath)

\* a call failed on an invalid value while the cache held an entry
C25_WitnessFailed ==
  /\ FailedOnDiscriminator
  /\ call.msg.kind = "invalid"
  /\ Has(call.before, TopPath)
  /\ _discriminators = call.before

(***************************************************************************)
(* Documents whose schema graph has cycles.  The loaded documents already  *)
(* have a cycle through the properties (Aws.owner names Target, Target     *)
(* names Cloud, Cloud names Aws).  In the documents below Cloud names      *)
(* Target among its x-concreteTypes as well, so the x-concreteTypes        *)
(* references come back to Target.                                         *)
(***************************************************************************)
cyclic_v2 ==
  [raw_spec_v2 EXCEPT !.definitions.Cloud["x-concreteTypes"] =
                        Append(@, Link(RefV2("Target")))]

cyclic_v3 ==
  [raw_spec_v3 EXCEPT !.components.schemas.Cloud["x-concreteTypes"] =
                        Append(@, Link(RefV3("Target")))]

CyclicSpecs == {cyclic_v2, cyclic_v3}

InitCycles ==
  /\ raw_spec \in RawSpecs \cup CyclicSpecs
  /\ spec = get_spec(raw_spec)
  /\ _discriminators = <<>>
  /\ origin = <<>>
  /\ call = Idle
  /\ requests = <<>>
  /\ NoSpinner

NextCycles ==
  \/ FilterJsonObject
  \/ Return

SpecCycles == InitCycles /\ [][NextCycles]_vars

\* the nesting depth of the dict values of an object
RECURSIVE nesting(_)
nesting(data) ==
  IF \A k \in DOMAIN data : ~IsDict(data[k]) THEN 0
  ELSE 1 + (CHOOSE d \in {nesting(data[k].obj) : k \in {x \in DOMAIN data : IsDict(data[x])}} :
              \A k \in {x \in DOMAIN data : IsDict(data[x])} : nesting(data[k].obj) <= d)

(***************************************************************************)
(* C26: filter_json_object terminates for every finite JSON object and     *)
(* every schema graph, cyclic ones included, and its recursion is never    *)
(* deeper than the nesting of the data.  Violated: the call asks           *)
(* list_concrete_types for the concrete types of the schema, and on a      *)
(* document whose x-concreteTypes references come back to a schema that    *)
(* recursion has no end but the interpreter's RecursionError.              *)
(***************************************************************************)
C26_FilterEndsOnEverySchemaGraph ==
  IsFilter => /\ call.exc # "RecursionError"
              /\ call.deepest <= nesting(call.data)

\* What holds: the recursion of filter_json_object itself follows the data,
\* whatever the cycles of the schema graph, and the call ends unless the
\* x-concreteTypes references come back to a schema.
C26_RecursionFollowsTheData ==
  IsFilter => /\ call.deepest <= nesting(call.data)
              /\ call.exc = "RecursionError" => raw_spec \in CyclicSpecs

\* a nested object was filtered by a schema the cycle of properties leads to
C26_NestedObjectOnTheCycle ==
  /\ IsFilter
  /\ call.exc = ""
  /\ call.deepest = 1
  /\ call.route = "/targets/"
  /\ Has(call.filtered, "owner") /\ IsDict(call.filtered["owner"])

(***************************************************************************)
(* Example generation over schemas whose properties name each other: a     *)
(* property of Top names Top itself, or names Back, whose property `top`   *)
(* names Top.                                                              *)
(***************************************************************************)
CyclicKinds ==
  { [type |-> "string"],
    "$ref" :> <<"#", "x", "Sub">>,
    "$ref" :> <<"#", "x", "Top">>,
    "$ref" :> <<"#", "x", "Back">>,
    "$ref" :> <<"#", "x", "Back">> @@ "readOnly" :> TRUE }

RECURSIVE CyclicLists(_)
CyclicLists(n) ==
  IF n = 0 THEN {<<>>}
  ELSE LET shorter == CyclicLists(n - 1)
       IN  shorter \cup {Append(properties, <<ExampleKeys[n], kind>>) :
                           properties \in shorter, kind \in CyclicKinds}

InitCyclicExamples ==
  /\ spec \in Versions
  /\ _discriminators = <<>>
  /\ origin = <<>>
  /\ requests = <<>>
  /\ NoSpinner
  /\ call \in {[op |-> "loaded", properties |-> properties] :
                 properties \in CyclicLists(MaxExampleKeys)}
  /\ raw_spec = example_document(spec, call.properties)

SpecCyclicExamples == InitCyclicExamples /\ [][NextExamples]_vars

\* a property that is not read-only names Top or Back
NamesItself(properties) ==
  \E i \in 1..Len(properties) :
    properties[i][2] \in {"$ref" :> <<"#", "x", "Top">>, "$ref" :> <<"#", "x", "Back">>}

(***************************************************************************)
(* C27: _generate_params terminates and returns a finite object for every  *)
(* request schema, also when its properties that are not read-only name    *)
(* each other through a cyclic $ref chain.  Violated: the recursion into a *)
(* referenced schema has no guard, so on such a chain it has no end but    *)
(* the interpreter's RecursionError, and no object is returned.            *)
(***************************************************************************)
C27_ExampleGenerationEnds ==
  IsExample => /\ call.exc = ""
               /\ call.value # None

\* What holds: the generation ends with an object exactly when no property
\* that is not read-only lies on a cycle of references.
C27_EndsUnlessReferencesComeBack ==
  IsExample => /\ (call.exc = "RecursionError") = NamesItself(call.properties)
               /\ call.exc = "" => call.value = ExpectedExample(call.schema)

\* a cycle of references through a read-only property only: the example is
\* generated
C27_ReadOnlyCycleIsSkipped ==
  /\ IsExample
  /\ call.exc = ""
  /\ call.form = "ref"
  /\ call.properties = << <<"size", [type |-> "string"]>>,
                          <<"tag", "$ref" :> <<"#", "x", "Back">> @@ "readOnly" :> TRUE>> >>
  /\ call.value = [size |-> [str |-> ""]]

(***************************************************************************)
(* C28: when an action is run with the dry-run option, no HTTP request is  *)
(* issued during that invocation, for every method and every way of        *)
(* supplying the body; run prints the planned method, uri, query           *)
(* parameters and body and returns the dummy response.  Violated: a PATCH  *)
(* without import-data fetches the object through a GET action of its own, *)
(* which is not a dry run, before run comes to `if self.dry_run`.          *)
(***************************************************************************)
IsDryRun == IsRun /\ call.dry_run

C28_DryRunSendsNothing ==
  IsDryRun => /\ requests = <<>>
              /\ call.exc = "" => call.dry # None

\* What holds: the request of the invocation itself is never sent by a dry
\* run, which prints the plan and returns the dummy response when pre has
\* returned; the only request of a dry run is the nested GET of a PATCH
\* without import-data.
C28_DryRunSendsNoRequestOfItsOwn ==
  IsDryRun =>
    /\ Len(requests) <= 1
    /\ \A i \in 1..Len(requests) :
         /\ requests[i].http_method = "get"
         /\ call.http_method = "patch"
         /\ call.input.import_data = <<>>
    /\ call.exc = "" =>
         /\ call.dry.response = json_dumps([data |-> <<>>, meta |-> <<>>])
         /\ call.dry.echo.http_method = call.http_method
         /\ call.dry.echo.uri = uri_format(call.route, call.kwargs)

\* a dry run of a PATCH from the standard input has printed its plan, and
\* the transport has received the GET
C28_DryRunOfPatchHasFetched ==
  /\ IsDryRun
  /\ call.http_method = "patch"
  /\ call.input.stdin
  /\ call.exc = ""
  /\ call.dry # None
  /\ Len(requests) = 1
  /\ requests[1].http_method = "get"

(***************************************************************************)
(* C29: for every POST or PATCH invocation in which pre returns normally,  *)
(* the JSON body run hands to the transport is the body object pre         *)
(* produced; it is never replaced by an empty object because the key pre   *)
(* chose is not among the body-parameter names.  Violated: with several    *)
(* names the key is the discriminator value of the supplied object, which  *)
(* need not be one of the names, and run then leaves data empty.           *)
(***************************************************************************)
\* the object pre stored in the keyword arguments
BodyOfPre == call.kwargs[CHOOSE k \in BodyKeys : TRUE].obj

BodySent == PreReturned /\ ~call.dry_run

C29_BodySentIsBodyOfPre ==
  BodySent => /\ BodyKeys # {}
              /\ OwnRequest.http_method = call.http_method
              /\ OwnRequest.data = json_dumps(BodyOfPre)

\* What holds: the body sent is the object of pre when its key is one of
\* the body-parameter names, and the empty object otherwise.
C29_BodySentWhenKeyIsAName ==
  BodySent =>
    /\ Cardinality(BodyKeys) = 1
    /\ OwnRequest.http_method = call.http_method
    /\ OwnRequest.data = IF \A k \in BodyKeys : InList(k, BodyParamNames)
                         THEN json_dumps(BodyOfPre) ELSE json_dumps(<<>>)

\* an imported object whose type is none of the names went out as {}
C29_EmptyBodySent ==
  /\ BodySent
  /\ BodyOfPre # <<>>
  /\ \A k \in BodyKeys : ~InList(k, BodyParamNames)
  /\ OwnRequest.data = json_dumps(<<>>)

\* an edited object of a PATCH went out as it was edited
C29_EditedBodySent ==
  /\ BodySent
  /\ call.http_method = "patch"
  /\ ~call.input.stdin
  /\ call.input.import_data = <<>>
  /\ BodyOfPre # <<>>
  /\ OwnRequest.data = json_dumps(BodyOfPre)

====
